---- MODULE Spec2Model ----
(***************************************************************************)
(* Inventory reconciliation: the quantity normalizer parse_qty_to_int, the *)
(* SQL-driven script compare_inventory.py, the in-memory engine            *)
(* compute_diff_pairs and the App of inventory_reconcile_gui.py, the order *)
(* fetch of oos_eol_identifier.py and the stock-status pass of             *)
(* critical_stock_analysis.py.                                             *)
(*                                                                         *)
(* Text is modelled as a sequence of one-character strings, so that        *)
(* stripping, upper-casing, comma removal and number parsing are computed  *)
(* character by character as the Python code computes them.                *)
(***************************************************************************)
EXTENDS Integers, Sequences, FiniteSets, TLC

VARIABLES
    raw, out, ppc,                         \* one call of parse_qty_to_int
    hnau_df, vs_df, hnau_norm, vs_norm,    \* compare_inventory.py
    joined, spc,
    stats_df, mismatches_df, only_hnau_df, only_vs_df,
    df_src, df_tgt, merged, res, gpc,      \* compute_diff_pairs
    call, cexc, ctrace, cpc,               \* compute_diff_pairs: arguments and checks
    mapping_state, src_path, tgt_path,     \* App
    threads, worker, result_frames, after_q, ui, last_box,
    config_file,                           \* the config file on disk
    server_count, limit, batch_size,       \* oos_eol_identifier.py: fetch_all_orders
    offset, all_orders, req_offset, all_results, fpc,
    ws, ws_row, kpc                        \* critical_stock_analysis.py

parseVars == <<raw, out, ppc>>
queryVars == <<stats_df, mismatches_df, only_hnau_df, only_vs_df>>
scriptVars == <<hnau_df, vs_df, hnau_norm, vs_norm, joined, spc, queryVars>>
guiVars == <<df_src, df_tgt, merged, res, gpc>>
callVars == <<call, cexc, ctrace, cpc>>
configVars == <<mapping_state, src_path, tgt_path>>
runVars == <<threads, worker, result_frames, after_q, ui>>
appVars == <<configVars, runVars, last_box, config_file>>
fetchVars == <<server_count, limit, batch_size, offset, all_orders, req_offset, all_results, fpc>>
stockVars == <<ws, ws_row, kpc>>
toolVars == <<fetchVars, stockVars>>

vars == <<parseVars, scriptVars, guiVars, callVars, appVars, toolVars>>

----------------------------------------------------------------------------
(* Bounds of the model *)

\* longest text enumerated character by character as a raw cell
MaxLen == 3
\* most raw rows of the two input tables of the script, taken together
MaxScriptRows == 4
\* most raw rows of the two input frames of compute_diff_pairs, together
MaxGuiRows == 4
\* most compare runs that _run_compare starts
MaxRuns == 2
\* most rows of compare pairs in the KeysAndPairsDialog
MaxPairRows == 1
\* most orders the server holds for the part number
MaxOrders == 5
\* largest page size (limit) and largest batch_size of the settings
MaxBatch == 3
\* most data rows of the stock worksheet
MaxStockRows == 3

----------------------------------------------------------------------------
(* Characters and Python str operations *)

Digits == {"0", "1", "2", "3", "4", "5", "6", "7", "8", "9"}

DigitVal == ("0" :> 0) @@ ("1" :> 1) @@ ("2" :> 2) @@ ("3" :> 3) @@ ("4" :> 4)
         @@ ("5" :> 5) @@ ("6" :> 6) @@ ("7" :> 7) @@ ("8" :> 8) @@ ("9" :> 9)

DigitChar == <<"0", "1", "2", "3", "4", "5", "6", "7", "8", "9">>

\* the characters str.strip() removes
Whitespace == {" ", "\t"}

LowerLetters == <<"a", "b", "c", "d", "e", "f", "g", "h", "i", "j", "k", "l", "m",
                  "n", "o", "p", "q", "r", "s", "t", "u", "v", "w", "x", "y", "z">>
UpperLetters == <<"A", "B", "C", "D", "E", "F", "G", "H", "I", "J", "K", "L", "M",
                  "N", "O", "P", "Q", "R", "S", "T", "U", "V", "W", "X", "Y", "Z">>

\* str.upper() on one character
UpperChar(c) ==
    IF \E i \in 1..26 : LowerLetters[i] = c
    THEN UpperLetters[CHOOSE i \in 1..26 : LowerLetters[i] = c]
    ELSE c

\* str.lower() on one character
LowerChar(c) ==
    IF \E i \in 1..26 : UpperLetters[i] = c
    THEN LowerLetters[CHOOSE i \in 1..26 : UpperLetters[i] = c]
    ELSE c

Upper(s) == [i \in 1..Len(s) |-> UpperChar(s[i])]
Lower(s) == [i \in 1..Len(s) |-> LowerChar(s[i])]

RECURSIVE LStrip(_)
LStrip(s) == IF s # <<>> /\ Head(s) \in Whitespace THEN LStrip(Tail(s)) ELSE s

RECURSIVE RStrip(_)
RStrip(s) ==
    IF s # <<>> /\ s[Len(s)] \in Whitespace
    THEN RStrip(SubSeq(s, 1, Len(s) - 1))
    ELSE s

\* str.strip()
Strip(s) == RStrip(LStrip(s))

\* str.replace(c, "")
RECURSIVE RemoveChar(_, _)
RemoveChar(s, c) ==
    IF s = <<>> THEN <<>>
    ELSE IF Head(s) = c THEN RemoveChar(Tail(s), c)
    ELSE <<Head(s)>> \o RemoveChar(Tail(s), c)

StartsWith(s, p) == Len(s) >= Len(p) /\ SubSeq(s, 1, Len(p)) = p
EndsWith(s, p) == Len(s) >= Len(p) /\ SubSeq(s, Len(s) - Len(p) + 1, Len(s)) = p

\* index of the first character of s that is in set cs, 0 when there is none
FirstIn(s, cs) ==
    IF \E i \in 1..Len(s) : s[i] \in cs
    THEN CHOOSE i \in 1..Len(s) : s[i] \in cs /\ \A j \in 1..(i - 1) : s[j] \notin cs
    ELSE 0

AllDigits(s) == \A i \in 1..Len(s) : s[i] \in Digits

RECURSIVE DigitsToInt(_)
DigitsToInt(s) ==
    IF s = <<>> THEN 0
    ELSE DigitsToInt(SubSeq(s, 1, Len(s) - 1)) * 10 + DigitVal[s[Len(s)]]

RECURSIVE Pow10(_)
Pow10(n) == IF n = 0 THEN 1 ELSE 10 * Pow10(n - 1)

----------------------------------------------------------------------------
(* Raw cells *)

\* missing values a cell can hold: None, float('nan'), pandas.NA
PyNone == <<"None">>
FloatNaN == <<"float-nan">>
PdNA == <<"pd.NA">>

IsMissing(x) == x \in {PyNone, FloatNaN, PdNA}

\* str(x)
PyStr(x) ==
    IF x = PyNone THEN <<"N", "o", "n", "e">>
    ELSE IF x = FloatNaN THEN <<"n", "a", "n">>
    ELSE IF x = PdNA THEN <<"<", "N", "A", ">">>
    ELSE x

----------------------------------------------------------------------------
(* decimal.Decimal(s), Decimal.to_integral_value, int(Decimal), float(s) *)

\* the text after its optional sign, and whether the sign is '-'
Unsigned(s) == IF s # <<>> /\ Head(s) \in {"+", "-"} THEN Tail(s) ELSE s
IsMinus(s) == s # <<>> /\ Head(s) = "-"

\* [sign] digits+
IsSignedDigits(s) == Unsigned(s) # <<>> /\ AllDigits(Unsigned(s))

\* the text before position i and the text after it (all of s, and nothing,
\* when i = 0)
Before(s, i) == IF i = 0 THEN s ELSE SubSeq(s, 1, i - 1)
After(s, i) == IF i = 0 THEN <<>> ELSE SubSeq(s, i + 1, Len(s))

\* coefficient and exponent from the integer digits, the fraction digits and
\* the exponent text of a number, kind "invalid" when one of them is ill-formed
NumericParts(ip, fp, hasExp, expS) ==
    IF AllDigits(ip) /\ AllDigits(fp) /\ (ip # <<>> \/ fp # <<>>)
       /\ (~hasExp \/ IsSignedDigits(expS))
    THEN [kind |-> "finite",
          coeff |-> DigitsToInt(ip \o fp),
          exp |-> (IF ~hasExp THEN 0
                   ELSE IF IsMinus(expS) THEN 0 - DigitsToInt(Unsigned(expS))
                   ELSE DigitsToInt(Unsigned(expS))) - Len(fp)]
    ELSE [kind |-> "invalid", coeff |-> 0, exp |-> 0]

\* the mantissa split at its first '.'
NumericMantissa(mant, dot, hasExp, expS) ==
    NumericParts(Before(mant, dot), After(mant, dot), hasExp, expS)

\* the text split at its first 'e' or 'E'
NumericSplit(body, ePos) ==
    NumericMantissa(Before(body, ePos), FirstIn(Before(body, ePos), {"."}),
                    ePos # 0, After(body, ePos))

\* a number written as  digits [. digits] [E [sign] digits]  or  . digits [E ...]
\* (the text carries no sign): its coefficient and exponent, kind "invalid" when
\* the text is not of that form
NumericOf(body) == NumericSplit(body, FirstIn(body, {"e", "E"}))

InfWords == {<<"i", "n", "f">>, <<"i", "n", "f", "i", "n", "i", "t", "y">>}
NaNWord == <<"n", "a", "n">>
SNaNWord == <<"s", "n", "a", "n">>

\* the Decimal of a sign, the lower-cased text after the sign, and that text
\* read as a number
DecimalOfParts(neg, low, num) ==
    IF low \in InfWords
    THEN [kind |-> "inf", neg |-> neg, coeff |-> 0, exp |-> 0]
    ELSE IF StartsWith(low, NaNWord) /\ AllDigits(SubSeq(low, 4, Len(low)))
    THEN [kind |-> "nan", neg |-> neg, coeff |-> 0, exp |-> 0]
    ELSE IF StartsWith(low, SNaNWord) /\ AllDigits(SubSeq(low, 5, Len(low)))
    THEN [kind |-> "snan", neg |-> neg, coeff |-> 0, exp |-> 0]
    ELSE [kind |-> num.kind, neg |-> neg, coeff |-> num.coeff, exp |-> num.exp]

\* DecimalOfClean that reads the sign and loses it
DecimalOfCleanLosingSign(s) ==
    DecimalOfParts(FALSE, Lower(Unsigned(s)), NumericOf(Unsigned(s)))

\* Decimal(s): surrounding whitespace and every underscore are removed, then
\* [sign] (number | Inf | Infinity | NaN digits* | sNaN digits*), in any letter case
DecimalOfClean(s) ==
    DecimalOfParts(IsMinus(s), Lower(Unsigned(s)), NumericOf(Unsigned(s)))

DecimalOf(s0) == DecimalOfClean(RemoveChar(Strip(s0), "_"))

\* RoundHalfUp with ties going to the even neighbour (ROUND_HALF_EVEN, round())
RoundHalfEven(coeff, exp) ==
    IF exp >= 0 THEN coeff * Pow10(exp)
    ELSE LET p == Pow10(0 - exp)
             q == coeff \div p
             r == coeff % p
         IN  IF 2 * r > p \/ (2 * r = p /\ q % 2 = 1) THEN q + 1 ELSE q

\* the magnitude coeff * 10^exp rounded to an integer, ties away from zero
RoundHalfUp(coeff, exp) ==
    IF exp >= 0 THEN coeff * Pow10(exp)
    ELSE LET p == Pow10(0 - exp)
             q == coeff \div p
             r == coeff % p
         IN  IF 2 * r >= p THEN q + 1 ELSE q

\* the magnitude coeff * 10^exp cut to an integer (int(float) truncates)
Truncate(coeff, exp) ==
    IF exp >= 0 THEN coeff * Pow10(exp) ELSE coeff \div Pow10(0 - exp)

\* -i if neg else i
ApplySign(neg, i) == IF neg THEN 0 - i ELSE i

Ok(n) == [exc |-> "none", val |-> n]
Raise(e) == [exc |-> e, val |-> 0]

\* int(d.to_integral_value(rounding=ROUND_HALF_UP))
IntOfIntegralValue(d) ==
    CASE d.kind = "invalid" -> Raise("InvalidOperation")   \* Decimal(s)
      [] d.kind = "snan" -> Raise("InvalidOperation")      \* to_integral_value
      [] d.kind = "nan" -> Raise("ValueError")             \* int(NaN)
      [] d.kind = "inf" -> Raise("OverflowError")          \* int(Infinity)
      [] OTHER -> Ok(ApplySign(d.neg, RoundHalfUp(d.coeff, d.exp)))

\* d = Decimal(s); int(d.to_integral_value(rounding=ROUND_HALF_UP))
IntOfDecimal(s) == IntOfIntegralValue(DecimalOf(s))

\* float accepts an underscore only between two digits
UnderscoresOK(s) ==
    \A i \in 1..Len(s) :
        s[i] = "_" => (i > 1 /\ i < Len(s) /\ s[i - 1] \in Digits /\ s[i + 1] \in Digits)

\* int(f) of the float read from a sign, the lower-cased text after the sign,
\* and that text read as a number
IntOfFloatParts(underscoresOK, neg, low, num) ==
    CASE ~underscoresOK -> Raise("ValueError")
      [] low \in InfWords -> Raise("OverflowError")
      [] low = NaNWord -> Raise("ValueError")
      [] num.kind = "invalid" -> Raise("ValueError")
      [] OTHER -> Ok(ApplySign(neg, Truncate(num.coeff, num.exp)))

IntOfFloatClean(underscoresOK, s) ==
    IntOfFloatParts(underscoresOK, IsMinus(s), Lower(Unsigned(s)),
                    NumericOf(Unsigned(s)))

IntOfFloatStripped(st) == IntOfFloatClean(UnderscoresOK(st), RemoveChar(st, "_"))

\* int(float(s))
IntOfFloat(s0) == IntOfFloatStripped(Strip(s0))

----------------------------------------------------------------------------
(* parse_qty_to_int *)

NullTokens == {<<"N", "U", "L", "L">>, <<"N", "A", "N">>}

\* x is None or (isinstance(x, float) and pd.isna(x))
IsNoneOrNaN(x) == x = PyNone \/ x = FloatNaN

IsParenNegative(s) == StartsWith(s, <<"(">>) /\ EndsWith(s, <<")">>)

\* RemoveCommas without the replace
KeepCommas(s) == s

\* s.replace(",", "")
RemoveCommas(s) == RemoveChar(s, ",")

\* CaughtByFirstExcept without InvalidOperation
CaughtValueErrorOnly == {"ValueError"}

\* the exceptions the first try block hands to the float fallback
CaughtByFirstExcept == {"InvalidOperation", "ValueError"}

\* the except branch of the inner try: any exception of int(float(s)) gives 0
FloatResult(neg, f) == IF f.exc = "none" THEN Ok(ApplySign(neg, f.val)) ELSE Ok(0)

\* the inner try: int(float(s)), any exception giving 0
FloatFallback(neg, s) == FloatResult(neg, IntOfFloat(s))

\* the outer try with d the outcome of the Decimal conversion of s
FirstTry(neg, s, d) ==
    IF d.exc = "none" THEN Ok(ApplySign(neg, d.val))
    ELSE IF d.exc \in CaughtByFirstExcept THEN FloatFallback(neg, s)
    ELSE d

\* the conversion of the text once its parentheses and commas are gone
ParseClean(neg, s) == FirstTry(neg, s, IntOfDecimal(s))

\* s = s.replace(",", "")
ParseSigned(neg, s1) == ParseClean(neg, RemoveCommas(s1))

\* the conversion of the stripped text s0 of the cell
ParseStripped(s0) ==
    IF s0 = <<>> \/ Upper(s0) \in NullTokens THEN Ok(0)
    ELSE ParseSigned(IsParenNegative(s0),
                     IF IsParenNegative(s0) THEN SubSeq(s0, 2, Len(s0) - 1) ELSE s0)

parse_qty_to_int(x) ==
    IF IsNoneOrNaN(x) THEN Ok(0) ELSE ParseStripped(Strip(PyStr(x)))

----------------------------------------------------------------------------
(* Raw cells handed to parse_qty_to_int *)

\* str(n) of a natural number and of an integer
RECURSIVE NatToStr(_)
NatToStr(n) ==
    IF n < 10 THEN <<DigitChar[n + 1]>>
    ELSE NatToStr(n \div 10) \o <<DigitChar[(n % 10) + 1]>>

IntToStr(n) == IF n < 0 THEN <<"-">> \o NatToStr(0 - n) ELSE NatToStr(n)

\* a digit string with ',' between groups of three digits, from the right
RECURSIVE GroupThousands(_)
GroupThousands(ds) ==
    IF Len(ds) <= 3 THEN ds
    ELSE GroupThousands(SubSeq(ds, 1, Len(ds) - 3)) \o <<",">>
         \o SubSeq(ds, Len(ds) - 2, Len(ds))

\* the text of integer n: style "plain" or "commas", whitespace pad 0..3
\* (none, leading, trailing, both)
Padded(s, pad) ==
    (IF pad \in {1, 3} THEN <<" ">> ELSE <<>>) \o s
    \o (IF pad \in {2, 3} THEN <<" ">> ELSE <<>>)

IntText(n, style, pad) ==
    LET ds == NatToStr(IF n < 0 THEN 0 - n ELSE n)
        body == IF style = "commas" THEN GroupThousands(ds) ELSE ds
    IN  Padded((IF n < 0 THEN <<"-">> ELSE <<>>) \o body, pad)

\* the text of the decimal  sgn * (w + f/10)  with one fractional digit
DecText(sgn, w, f) ==
    (IF sgn < 0 THEN <<"-">> ELSE <<>>) \o NatToStr(w) \o <<".">> \o <<DigitChar[f + 1]>>

InParens(s) == <<"(">> \o s \o <<")">>

IntSamples == {0, 5, 123, 1234, 41820, 1234567, -5, -1234}
Styles == {"plain", "commas"}
Pads == 0..3
Wholes == {0, 1, 2, 41820}
Signs == {1, -1}

Alphabet == {"0", "1", "5", ".", "-", "(", ")", ",", " ", "e"}
ShortTexts == UNION {[1..n -> Alphabet] : n \in 0..MaxLen}

NamedTexts ==
    { <<" ", " ">>, <<"\t">>,
      <<"N", "U", "L", "L">>, <<"n", "u", "l", "l">>, <<"N", "u", "l", "l">>,
      <<"N", "A", "N">>, <<"n", "a", "n">>, <<"N", "a", "N">>,
      <<" ", "n", "u", "l", "l", " ">>,
      <<"(", "N", "U", "L", "L", ")">>,
      <<"a", "b", "c">>, <<"(", "a", "b", "c", ")">>, <<"x", "1">>, <<"1", "2", "b">>,
      <<"i", "n", "f">>, <<"I", "n", "f">>, <<"-", "i", "n", "f">>,
      <<"(", "i", "n", "f", ")">>,
      <<"I", "n", "f", "i", "n", "i", "t", "y">>,
      <<"-", "N", "a", "N">>, <<"+", "n", "a", "n">>, <<"N", "a", "N", "1">>,
      <<"s", "N", "a", "N">>, <<"(", "n", "a", "n", ")">>,
      <<"1", "e", "5">>, <<"1", "E", "1">>, <<"5", "e", "-", "1">>,
      <<"1", "5", "e", "-", "1">>, <<"1", "_", "0">>, <<"_", "1">>,
      <<"1", ".", "4", "5">>, <<"0", ".", "4", "9">>, <<"N", "o", "n", "e">>,
      <<"<", "N", "A", ">">>, <<"(", " ", "1", ",", "2", "3", "4", " ", ")">>,
      <<" ", "(", "1", ",", "2", "3", "4", ")", " ">> }

IntTexts == {IntText(n, st, pad) : n \in IntSamples, st \in Styles, pad \in Pads}
DecTexts == {DecText(sg, w, f) : sg \in Signs, w \in Wholes, f \in 0..9}

CellInputs ==
    {PyNone, FloatNaN, PdNA} \cup ShortTexts \cup NamedTexts
    \cup IntTexts \cup {InParens(s) : s \in IntTexts}
    \cup DecTexts \cup {InParens(s) : s \in DecTexts}

----------------------------------------------------------------------------
(* One call of parse_qty_to_int: raw is the argument, out what the call gives *)

Pending == [exc |-> "pending", val |-> 0]

ParseIdle == raw = <<>> /\ out = Pending /\ ppc = "idle"
ScriptIdle ==
    /\ hnau_df = <<>> /\ vs_df = <<>> /\ hnau_norm = <<>> /\ vs_norm = <<>>
    /\ joined = <<>> /\ spc = "idle"
    /\ stats_df = <<>> /\ mismatches_df = <<>> /\ only_hnau_df = <<>> /\ only_vs_df = <<>>

GuiIdle == df_src = <<>> /\ df_tgt = <<>> /\ merged = <<>> /\ res = <<>> /\ gpc = "idle"

CallIdle == call = <<>> /\ cexc = <<>> /\ ctrace = <<>> /\ cpc = "idle"

\* no App has been constructed
AppIdle ==
    /\ mapping_state = <<>> /\ src_path = "" /\ tgt_path = ""
    /\ threads = <<>> /\ worker = 0 /\ result_frames = <<>> /\ after_q = <<>>
    /\ ui = <<>> /\ last_box = "" /\ config_file = <<>>

\* fetch_all_orders has not been called
FetchIdle ==
    /\ server_count = 0 /\ limit = 0 /\ batch_size = 0 /\ offset = 0
    /\ all_orders = <<>> /\ req_offset = 0 /\ all_results = <<>> /\ fpc = "idle"

\* no workbook is loaded
StockIdle == ws = <<>> /\ ws_row = 0 /\ kpc = "idle"

ToolsIdle == FetchIdle /\ StockIdle

InitParse ==
    /\ raw \in CellInputs
    /\ out = Pending
    /\ ppc = "call"
    /\ ScriptIdle /\ GuiIdle /\ CallIdle /\ AppIdle /\ ToolsIdle

\* the call returns its integer, or ends by the exception it lets escape
ParseCell ==
    /\ ppc = "call"
    /\ out' = parse_qty_to_int(raw)
    /\ ppc' = "done"
    /\ UNCHANGED <<raw, scriptVars, guiVars, callVars, appVars, toolVars>>

NextParse == ParseCell

SpecParse == InitParse /\ [][NextParse]_vars

----------------------------------------------------------------------------
(* Ordering of text, as Python and SQLite (BINARY collation) compare strings *)

\* the printable ASCII characters, from code point 32 to 126 (code point 96 is
\* written as a placeholder; no text of the model holds it)
Printable ==
    <<" ", "!", "\"", "#", "$", "%", "&", "'", "(", ")", "*", "+",
       ",", "-", ".", "/", "0", "1", "2", "3", "4", "5", "6", "7",
       "8", "9", ":", ";", "<", "=", ">", "?", "@", "A", "B", "C",
       "D", "E", "F", "G", "H", "I", "J", "K", "L", "M", "N", "O",
       "P", "Q", "R", "S", "T", "U", "V", "W", "X", "Y", "Z", "[",
       "\\", "]", "^", "_", "<backtick>", "a", "b", "c", "d", "e", "f", "g",
       "h", "i", "j", "k", "l", "m", "n", "o", "p", "q", "r", "s",
       "t", "u", "v", "w", "x", "y", "z", "{", "|", "}", "~">>

\* ord(c)
CodePoint ==
    [c \in {Printable[i] : i \in 1..Len(Printable)} \cup {"\t"} |->
        IF c = "\t" THEN 9
        ELSE 31 + (CHOOSE i \in 1..Len(Printable) : Printable[i] = c)]

Ord(c) == CodePoint[c]

\* a < b for two texts
RECURSIVE TextLess(_, _)
TextLess(a, b) ==
    IF b = <<>> THEN FALSE
    ELSE IF a = <<>> THEN TRUE
    ELSE IF Head(a) = Head(b) THEN TextLess(Tail(a), Tail(b))
    ELSE Ord(Head(a)) < Ord(Head(b))

\* the texts of set S in ascending order
RECURSIVE SortedTexts(_)
SortedTexts(S) ==
    IF S = {} THEN <<>>
    ELSE LET m == CHOOSE x \in S : \A y \in S \ {x} : TextLess(x, y)
         IN  <<m>> \o SortedTexts(S \ {m})

RECURSIVE SumQty(_)
SumQty(s) == IF s = <<>> THEN 0 ELSE Head(s).qty + SumQty(Tail(s))

SeqsUpTo(S, n) == UNION {[1..k -> S] : k \in 0..n}

\* a nullable value: <<>> is NULL / <NA>, <<v>> holds v
Null == <<>>
Some(v) == <<v>>
Coalesce(x, d) == IF x = Null THEN d ELSE x[1]
Abs(n) == IF n < 0 THEN 0 - n ELSE n

----------------------------------------------------------------------------
(* The raw tables of the model *)

\* compare_inventory.py: a raw row is [sku |-> key cell, qty |-> quantity cell]
ScriptSkus == {<<"A", "1">>, <<"a", "1", " ">>, <<"B", "2">>, <<" ">>, PdNA}
ScriptQtys == {<<"1">>, <<"5">>, <<"7">>, <<"i", "n", "f">>}
ScriptRows == [sku : ScriptSkus, qty : ScriptQtys]

\* compute_diff_pairs: the mapping of the call (one key column on each side, two
\* compare pairs of distinct columns), the key cells and the cells of the
\* compare columns of a row
src_keys == <<"sku">>
tgt_keys == <<"supplier_sku">>
compare_pairs == <<<<"qty", "free_stock">>, <<"alt_qty", "alt_stock">>>>
NPairs == Len(compare_pairs)
GuiKeys == {<<"A", "1">>, <<"a", "1", " ">>, PdNA}
GuiVals == {<<PdNA, <<"1">>>>, <<<<"0">>, <<"1">>>>, <<<<"5">>, <<"1">>>>, <<<<"5">>, <<"0">>>>}
GuiRows == {[k |-> <<kc>>, v |-> cs] : kc \in GuiKeys, cs \in GuiVals}

\* series.map(parse_qty_to_int): the function's value on every quantity cell
\* of the tables, computed once
QtyCells == ScriptQtys \cup {cs[i] : cs \in GuiVals, i \in 1..NPairs}
ParsedCell == [c \in QtyCells |-> parse_qty_to_int(c)]
to_nullable_int(c) == ParsedCell[c]

----------------------------------------------------------------------------
(* compare_inventory.py: normalization *)

clean_sku(x) ==
    IF IsMissing(x) THEN PyNone
    ELSE LET s == Strip(PyStr(x))
         IN  IF s = <<>> THEN PyNone ELSE Upper(s)

\* Series.map(parse_qty_to_int): the exceptions the calls let escape
MapRaises(df) == \E i \in 1..Len(df) : to_nullable_int(df[i].qty).exc # "none"

\* df.assign(sku = ...map(clean_sku), qty = to_nullable_int_series(...))
Assigned(df) ==
    [i \in 1..Len(df) |->
        [sku |-> clean_sku(df[i].sku), qty |-> to_nullable_int(df[i].qty).val]]

\* .dropna(subset=["sku"])
DropNaSku(rows) == SelectSeq(rows, LAMBDA r : r.sku # PyNone)

\* AggQty keeping the last row of the group instead of the sum
AggQtyLast(rows) == rows[Len(rows)].qty

\* the aggregate of the rows of one group: qty=("qty", "sum")
AggQty(rows) == SumQty(rows)

\* .groupby("sku", as_index=False).agg(qty=("qty", "sum")): one row per sku,
\* in ascending order of sku
GroupBySku(rows) ==
    LET skus == SortedTexts({rows[i].sku : i \in 1..Len(rows)})
    IN  [g \in 1..Len(skus) |->
            [sku |-> skus[g],
             qty |-> AggQty(SelectSeq(rows, LAMBDA r : r.sku = skus[g]))]]

Normalized(df) == GroupBySku(DropNaSku(Assigned(df)))

----------------------------------------------------------------------------
(* compare_inventory.py: the SQLite tables and the base_join query *)

\* INSERT into a table whose sku is the PRIMARY KEY fails on a repeated sku
ViolatesPrimaryKey(rows) ==
    \E i, j \in 1..Len(rows) : i # j /\ rows[i].sku = rows[j].sku

\* the CASE expression of the first SELECT of base_join
StatusOf(vsku, hq, vq) ==
    IF vsku = Null THEN "ONLY_IN_HNAU"
    ELSE IF Coalesce(hq, 0) = Coalesce(vq, 0) THEN "MATCH"
    ELSE "QTY_MISMATCH"

QtyDiff(hq, vq) == Coalesce(vq, 0) - Coalesce(hq, 0)

\* FROM hnau_norm h LEFT JOIN vs_norm v ON v.sku = h.sku
RECURSIVE HnauLeftJoin(_, _)
HnauLeftJoin(h, v) ==
    IF h = <<>> THEN <<>>
    ELSE LET r == Head(h)
             ms == SelectSeq(v, LAMBDA x : x.sku = r.sku)
             one == [sku |-> r.sku, hnau_qty |-> Some(r.qty), vs_qty |-> Null,
                     qty_diff |-> QtyDiff(Some(r.qty), Null),
                     status |-> StatusOf(Null, Some(r.qty), Null)]
         IN  (IF ms = <<>> THEN <<one>>
              ELSE [j \in 1..Len(ms) |->
                       [sku |-> r.sku, hnau_qty |-> Some(r.qty),
                        vs_qty |-> Some(ms[j].qty),
                        qty_diff |-> QtyDiff(Some(r.qty), Some(ms[j].qty)),
                        status |-> StatusOf(Some(ms[j].sku), Some(r.qty),
                                            Some(ms[j].qty))]])
             \o HnauLeftJoin(Tail(h), v)

\* FROM vs_norm v LEFT JOIN hnau_norm h ON h.sku = v.sku WHERE h.sku IS NULL
VsOnly(h, v) ==
    LET un == SelectSeq(v, LAMBDA x : \A i \in 1..Len(h) : h[i].sku # x.sku)
    IN  [j \in 1..Len(un) |->
            [sku |-> un[j].sku, hnau_qty |-> Null, vs_qty |-> Some(un[j].qty),
             qty_diff |-> QtyDiff(Null, Some(un[j].qty)), status |-> "ONLY_IN_VS"]]

\* WITH joined AS (... UNION ALL ...)
base_join(h, v) == HnauLeftJoin(h, v) \o VsOnly(h, v)

----------------------------------------------------------------------------
(* compare_inventory.py: the queries over joined *)

\* the rows in the order given by Precedes, a strict total order on them
OrderBy(rows, Precedes(_, _)) ==
    [p \in 1..Len(rows) |->
        rows[CHOOSE i \in 1..Len(rows) :
                Cardinality({j \in 1..Len(rows) : Precedes(rows[j], rows[i])}) = p - 1]]

\* ORDER BY sku
SkuBefore(a, b) == TextLess(a.sku, b.sku)

\* MismatchBefore without the magnitude: ORDER BY sku alone
MismatchBeforeBySkuOnly(a, b) == TextLess(a.sku, b.sku)

\* ORDER BY ABS(qty_diff) DESC, sku
MismatchBefore(a, b) ==
    \/ Abs(a.qty_diff) > Abs(b.qty_diff)
    \/ Abs(a.qty_diff) = Abs(b.qty_diff) /\ TextLess(a.sku, b.sku)

HasStatus(rows, st) == SelectSeq(rows, LAMBDA r : r.status = st)

mismatch_sql(j) == OrderBy(HasStatus(j, "QTY_MISMATCH"), MismatchBefore)
only_hnau_sql(j) == OrderBy(HasStatus(j, "ONLY_IN_HNAU"), SkuBefore)
only_vs_sql(j) == OrderBy(HasStatus(j, "ONLY_IN_VS"), SkuBefore)

RECURSIVE SeqSum(_)
SeqSum(s) == IF s = <<>> THEN 0 ELSE Head(s) + SeqSum(Tail(s))

\* SUM(x): NULL over no rows
SqlSum(xs) == IF xs = <<>> THEN Null ELSE Some(SeqSum(xs))

\* SUM(CASE WHEN status = st THEN 1 ELSE 0 END)
CountStatus(j, st) ==
    SqlSum([n \in 1..Len(j) |-> IF j[n].status = st THEN 1 ELSE 0])

\* AvgAbsDiff over every row of joined, as with ELSE 0 in the CASE
AvgAbsDiffAllRows(j) ==
    LET xs == [n \in 1..Len(j) |->
                  IF j[n].status = "QTY_MISMATCH" THEN Abs(j[n].qty_diff) ELSE 0]
    IN  IF xs = <<>> THEN Null ELSE Some([sum |-> SeqSum(xs), count |-> Len(xs)])

\* AVG(CASE WHEN status = 'QTY_MISMATCH' THEN ABS(qty_diff) END): the mean of
\* the non-NULL values as the quotient sum / count, NULL when there is none
AvgAbsDiff(j) ==
    LET ms == HasStatus(j, "QTY_MISMATCH")
        xs == [n \in 1..Len(ms) |-> Abs(ms[n].qty_diff)]
    IN  IF xs = <<>> THEN Null ELSE Some([sum |-> SeqSum(xs), count |-> Len(xs)])

stats_sql(h, v, j) ==
    [hnau_rows |-> Len(h),
     vs_rows |-> Len(v),
     matches |-> CountStatus(j, "MATCH"),
     qty_mismatches |-> CountStatus(j, "QTY_MISMATCH"),
     only_in_hnau |-> CountStatus(j, "ONLY_IN_HNAU"),
     only_in_vs |-> CountStatus(j, "ONLY_IN_VS"),
     total_hnau_qty |-> SqlSum([n \in 1..Len(j) |-> Coalesce(j[n].hnau_qty, 0)]),
     total_vs_qty |-> SqlSum([n \in 1..Len(j) |-> Coalesce(j[n].vs_qty, 0)]),
     sum_abs_qty_diff |->
         SqlSum([n \in 1..Len(j) |->
                    IF j[n].status = "QTY_MISMATCH" THEN Abs(j[n].qty_diff) ELSE 0]),
     avg_abs_qty_diff |-> AvgAbsDiff(j)]

----------------------------------------------------------------------------
(* compare_inventory.py: the run of the script *)

\* the two CSV files are loaded
InitScript ==
    /\ hnau_df \in SeqsUpTo(ScriptRows, MaxScriptRows)
    /\ vs_df \in SeqsUpTo(ScriptRows, MaxScriptRows - Len(hnau_df))
    /\ hnau_norm = <<>> /\ vs_norm = <<>> /\ joined = <<>>
    /\ stats_df = <<>> /\ mismatches_df = <<>> /\ only_hnau_df = <<>> /\ only_vs_df = <<>>
    /\ spc = "loaded"
    /\ ParseIdle /\ GuiIdle /\ CallIdle /\ AppIdle /\ ToolsIdle

\* hnau_norm = ..., vs_norm = ...: an exception of parse_qty_to_int ends the script
Normalize ==
    /\ spc = "loaded"
    /\ IF MapRaises(hnau_df) \/ MapRaises(vs_df)
       THEN /\ spc' = "crashed"
            /\ UNCHANGED <<hnau_norm, vs_norm>>
       ELSE /\ hnau_norm' = Normalized(hnau_df)
            /\ vs_norm' = Normalized(vs_df)
            /\ spc' = "normalized"
    /\ UNCHANGED <<hnau_df, vs_df, joined, queryVars, parseVars, guiVars, callVars, appVars, toolVars>>

\* to_sql into the two tables, then the queries over base_join
RunQueries ==
    /\ spc = "normalized"
    /\ IF ViolatesPrimaryKey(hnau_norm) \/ ViolatesPrimaryKey(vs_norm)
       THEN /\ spc' = "crashed"
            /\ UNCHANGED <<joined, queryVars>>
       ELSE /\ joined' = base_join(hnau_norm, vs_norm)
            /\ stats_df' = stats_sql(hnau_norm, vs_norm, joined')
            /\ mismatches_df' = mismatch_sql(joined')
            /\ only_hnau_df' = only_hnau_sql(joined')
            /\ only_vs_df' = only_vs_sql(joined')
            /\ spc' = "done"
    /\ UNCHANGED <<hnau_df, vs_df, hnau_norm, vs_norm, parseVars, guiVars, callVars, appVars, toolVars>>

NextScript == Normalize \/ RunQueries

SpecScript == InitScript /\ [][NextScript]_vars

----------------------------------------------------------------------------
(* inventory_reconcile_gui.py: compute_diff_pairs                          *)
(*                                                                         *)
(* A row of a frame is [k |-> the cells of its key columns, v |-> the      *)
(* cells of its compare columns, one per compare pair]: for a source row   *)
(* v[i] is the cell of the source column of pair i, for a target row that  *)
(* of the target column of pair i.                                         *)

\* A[s] = to_nullable_int_series(A[s]) for every compare column
ConvertRaises(df) ==
    \E r \in 1..Len(df) : \E i \in 1..Len(df[r].v) :
        to_nullable_int(df[r].v[i]).exc # "none"

Converted(df) ==
    [r \in 1..Len(df) |->
        [k |-> df[r].k,
         v |-> [i \in 1..Len(df[r].v) |-> to_nullable_int(df[r].v[i]).val]]]

\* the order pd.merge(how="outer") gives the keys: ascending, a missing cell last
CellLess(x, y) ==
    IF IsMissing(x) THEN FALSE
    ELSE IF IsMissing(y) THEN TRUE
    ELSE TextLess(x, y)

RECURSIVE KeyLess(_, _)
KeyLess(a, b) ==
    IF a = <<>> \/ b = <<>> THEN FALSE
    ELSE IF Head(a) = Head(b) THEN KeyLess(Tail(a), Tail(b))
    ELSE CellLess(Head(a), Head(b))

RECURSIVE SortedKeys(_)
SortedKeys(S) ==
    IF S = {} THEN <<>>
    ELSE LET m == CHOOSE x \in S : \A y \in S \ {x} : KeyLess(x, y)
         IN  <<m>> \o SortedKeys(S \ {m})

\* merged[kcols].astype("string").fillna("").agg(" | ".join, axis=1)
RECURSIVE JoinKey(_)
JoinKey(k) ==
    LET txt(c) == IF IsMissing(c) THEN <<>> ELSE c
    IN  IF k = <<>> THEN <<>>
        ELSE IF Len(k) = 1 THEN txt(k[1])
        ELSE txt(k[1]) \o <<" ", "|", " ">> \o JoinKey(Tail(k))

\* positions of the rows of frame df whose key cells equal key (pandas matches
\* two missing key cells with each other)
RowsWithKey(df, key) == SelectSeq([i \in 1..Len(df) |-> i], LAMBDA i : df[i].k = key)

NullVals(n) == [i \in 1..n |-> Null]
SomeVals(v) == [i \in 1..Len(v) |-> Some(v[i])]

\* the rows pd.merge gives for one key: li and ri are the positions of the
\* source and target rows a merged row comes from (0: none)
MergedForKey(A, B, key, npairs) ==
    LET ls == RowsWithKey(A, key)
        rs == RowsWithKey(B, key)
    IN  IF rs = <<>>
        THEN [x \in 1..Len(ls) |->
                [k |-> key, src |-> SomeVals(A[ls[x]].v), tgt |-> NullVals(npairs),
                 merge_ind |-> "left_only", li |-> ls[x], ri |-> 0]]
        ELSE IF ls = <<>>
        THEN [y \in 1..Len(rs) |->
                [k |-> key, src |-> NullVals(npairs), tgt |-> SomeVals(B[rs[y]].v),
                 merge_ind |-> "right_only", li |-> 0, ri |-> rs[y]]]
        ELSE [z \in 1..(Len(ls) * Len(rs)) |->
                LET x == ((z - 1) \div Len(rs)) + 1
                    y == ((z - 1) % Len(rs)) + 1
                IN  [k |-> key, src |-> SomeVals(A[ls[x]].v),
                     tgt |-> SomeVals(B[rs[y]].v),
                     merge_ind |-> "both", li |-> ls[x], ri |-> rs[y]]]

RECURSIVE MergeKeys(_, _, _, _)
MergeKeys(A, B, keys, npairs) ==
    IF keys = <<>> THEN <<>>
    ELSE MergedForKey(A, B, Head(keys), npairs) \o MergeKeys(A, B, Tail(keys), npairs)

\* pd.merge(A, B, on=kcols, how="outer", indicator=True), with its "key" column
Merge(A, B, npairs) ==
    LET keys == SortedKeys({A[i].k : i \in 1..Len(A)} \cup {B[j].k : j \in 1..Len(B)})
        rows == MergeKeys(A, B, keys, npairs)
    IN  [n \in 1..Len(rows) |->
            [k |-> rows[n].k, key |-> JoinKey(rows[n].k),
             src |-> rows[n].src, tgt |-> rows[n].tgt,
             merge_ind |-> rows[n].merge_ind, li |-> rows[n].li, ri |-> rows[n].ri]]

\* eq = (s.isna() & t.isna()) | (s.fillna(0) == t.fillna(0))
PairEq(s, t) == (s = Null /\ t = Null) \/ Coalesce(s, 0) = Coalesce(t, 0)

\* EqualAll with each pair's eq overwriting equal_all: the last pair decides
EqualLastPair(m) == PairEq(m.src[Len(m.src)], m.tgt[Len(m.tgt)])

\* equal_all: the conjunction of eq over every compare pair
EqualAll(m) == \A i \in 1..Len(m.src) : PairEq(m.src[i], m.tgt[i])

OnlySrcMask(m) == m.merge_ind = "left_only"
OnlyTgtMask(m) == m.merge_ind = "right_only"
BothMask(m) == m.merge_ind = "both"
MismatchMask(m) == BothMask(m) /\ ~EqualAll(m)
SameMask(m) == BothMask(m) /\ EqualAll(m)

\* SrcInTgtOut looking at every compare pair instead of the first
SrcInTgtOutAnyPair(m) ==
    BothMask(m) /\ \E i \in 1..Len(m.src) :
                      Coalesce(m.src[i], 0) > 0 /\ Coalesce(m.tgt[i], 0) <= 0

\* TgtInSrcOut with q_t >= 0 in place of q_t > 0
TgtInSrcOutFromZero(m) ==
    BothMask(m) /\ Coalesce(m.tgt[1], 0) >= 0 /\ Coalesce(m.src[1], 0) <= 0

\* q_s, q_t: the first pair's quantities, <NA> filled with 0
SrcInTgtOut(m) == BothMask(m) /\ Coalesce(m.src[1], 0) > 0 /\ Coalesce(m.tgt[1], 0) <= 0
TgtInSrcOut(m) == BothMask(m) /\ Coalesce(m.tgt[1], 0) > 0 /\ Coalesce(m.src[1], 0) <= 0

\* the values compute_diff_pairs returns
DiffResult(A, B, mg) ==
    LET diff == SelectSeq(mg, MismatchMask)
        osrc == SelectSeq(mg, OnlySrcMask)
        otgt == SelectSeq(mg, OnlyTgtMask)
        sito == SelectSeq(mg, SrcInTgtOut)
        tiso == SelectSeq(mg, TgtInSrcOut)
    IN  [diff_df |-> [n \in 1..Len(diff) |->
                        [key |-> diff[n].key, change |-> "modified",
                         src |-> diff[n].src, tgt |-> diff[n].tgt]],
         only_src |-> [n \in 1..Len(osrc) |->
                        [key |-> osrc[n].key, val0_src |-> osrc[n].src[1]]],
         only_tgt |-> [n \in 1..Len(otgt) |->
                        [key |-> otgt[n].key, val0_tgt |-> otgt[n].tgt[1]]],
         src_in_tgt_out |-> [n \in 1..Len(sito) |->
                        [key |-> sito[n].key, val0_src |-> sito[n].src[1],
                         val0_tgt |-> sito[n].tgt[1]]],
         tgt_in_src_out |-> [n \in 1..Len(tiso) |->
                        [key |-> tiso[n].key, val0_src |-> tiso[n].src[1],
                         val0_tgt |-> tiso[n].tgt[1]]],
         stats |-> [added |-> Len(otgt),
                    removed |-> Len(osrc),
                    modified |-> Len(diff),
                    same |-> Len(SelectSeq(mg, SameMask)),
                    hnau_in_vs_out |-> Len(sito),
                    vs_in_hnau_out |-> Len(tiso),
                    hnau_rows |-> Len(A),
                    vs_rows |-> Len(B)]]

----------------------------------------------------------------------------
(* One call of compute_diff_pairs, with one key column on each side and    *)
(* NPairs compare pairs of distinct columns                                *)


InitGui ==
    /\ df_src \in SeqsUpTo(GuiRows, MaxGuiRows)
    /\ df_tgt \in SeqsUpTo(GuiRows, MaxGuiRows - Len(df_src))
    /\ merged = <<>> /\ res = <<>>
    /\ gpc = "call"
    /\ ParseIdle /\ ScriptIdle /\ CallIdle /\ AppIdle /\ ToolsIdle

\* the call returns its six values, or ends by an exception of parse_qty_to_int
compute_diff_pairs ==
    /\ gpc = "call"
    /\ IF ConvertRaises(df_src) \/ ConvertRaises(df_tgt)
       THEN /\ gpc' = "raised"
            /\ UNCHANGED <<merged, res>>
       ELSE LET A == Converted(df_src)
                B == Converted(df_tgt)
                mg == Merge(A, B, NPairs)
            IN  /\ merged' = mg
                /\ res' = DiffResult(A, B, mg)
                /\ gpc' = "done"
    /\ UNCHANGED <<df_src, df_tgt, parseVars, scriptVars, callVars, appVars, toolVars>>

NextGui == compute_diff_pairs

SpecGui == InitGui /\ [][NextGui]_vars

----------------------------------------------------------------------------
(* inventory_reconcile_gui.py: compute_diff_pairs, the checks of its        *)
(* arguments and the selection of the columns                               *)
(*                                                                          *)
(* call is [src_columns, tgt_columns: the columns the two frames have,      *)
(* src_keys, tgt_keys, compare_pairs: the mapping]; ctrace lists the steps  *)
(* of the body the call has gone through.                                   *)

ElemsOf(s) == {s[i] : i \in 1..Len(s)}

SrcKeyColumns == {"sku", "supplier_id"}
TgtKeyColumns == {"supplier_sku", "account"}
PairChoices == {<<"qty", "free_stock">>, <<"alt_qty", "alt_stock">>}
SrcColumns == SrcKeyColumns \cup {p[1] : p \in PairChoices}
TgtColumns == TgtKeyColumns \cup {p[2] : p \in PairChoices}

\* KeysInvalid without the comparison of the two lengths
KeysInvalidEmptyOnly(sk, tk) == sk = <<>> \/ tk = <<>>

\* not src_keys or not tgt_keys or len(src_keys) != len(tgt_keys)
KeysInvalid(sk, tk) == sk = <<>> \/ tk = <<>> \/ Len(sk) # Len(tk)

\* list(dict.fromkeys([*src_keys, *[s for s, _ in compare_pairs]]))
src_keep(c) == ElemsOf(c.src_keys) \cup {c.compare_pairs[i][1] : i \in 1..Len(c.compare_pairs)}
tgt_keep(c) == ElemsOf(c.tgt_keys) \cup {c.compare_pairs[i][2] : i \in 1..Len(c.compare_pairs)}

ValueError(msg) == [type |-> "ValueError", msg |-> msg, src_missing |-> {}, tgt_missing |-> {}]

\* the KeyError of df[columns]: it names the columns that frame lacks
KeyErrorSrc(cols) == [type |-> "KeyError", msg |-> "not in index", src_missing |-> cols, tgt_missing |-> {}]
KeyErrorTgt(cols) == [type |-> "KeyError", msg |-> "not in index", src_missing |-> {}, tgt_missing |-> cols]

InitCall ==
    /\ call \in [src_columns : SUBSET SrcColumns, tgt_columns : SUBSET TgtColumns,
                 src_keys : SeqsUpTo(SrcKeyColumns, 2), tgt_keys : SeqsUpTo(TgtKeyColumns, 2),
                 compare_pairs : SeqsUpTo(PairChoices, 2)]
    /\ cexc = <<>> /\ ctrace = <<>> /\ cpc = "call"
    /\ ParseIdle /\ ScriptIdle /\ GuiIdle /\ AppIdle /\ ToolsIdle

\* lines 96-99: the two checks of the mapping
RaiseOnMapping ==
    /\ cpc = "call"
    /\ \/ /\ KeysInvalid(call.src_keys, call.tgt_keys)
          /\ cexc' = ValueError("Key mapping must have the same number of columns on both sides (1 or 2).")
       \/ /\ ~KeysInvalid(call.src_keys, call.tgt_keys)
          /\ call.compare_pairs = <<>>
          /\ cexc' = ValueError("Add at least one compare column pair.")
    /\ cpc' = "raised"
    /\ UNCHANGED <<call, ctrace, parseVars, scriptVars, guiVars, appVars, toolVars>>

\* lines 101-105: A = df_src[src_keep], then B = df_tgt[tgt_keep]
RaiseOnColumns ==
    /\ cpc = "call"
    /\ ~KeysInvalid(call.src_keys, call.tgt_keys)
    /\ call.compare_pairs # <<>>
    /\ \/ /\ src_keep(call) \ call.src_columns # {}
          /\ cexc' = KeyErrorSrc(src_keep(call) \ call.src_columns)
          /\ ctrace' = <<"src_columns">>
       \/ /\ src_keep(call) \ call.src_columns = {}
          /\ tgt_keep(call) \ call.tgt_columns # {}
          /\ cexc' = KeyErrorTgt(tgt_keep(call) \ call.tgt_columns)
          /\ ctrace' = <<"src_columns", "tgt_columns">>
    /\ cpc' = "raised"
    /\ UNCHANGED <<call, parseVars, scriptVars, guiVars, appVars, toolVars>>

\* lines 107-177: the conversion, the merge and the results
RunBody ==
    /\ cpc = "call"
    /\ ~KeysInvalid(call.src_keys, call.tgt_keys)
    /\ call.compare_pairs # <<>>
    /\ src_keep(call) \subseteq call.src_columns
    /\ tgt_keep(call) \subseteq call.tgt_columns
    /\ ctrace' = <<"src_columns", "tgt_columns", "convert", "merge">>
    /\ cpc' = "returned"
    /\ UNCHANGED <<call, cexc, parseVars, scriptVars, guiVars, appVars, toolVars>>

NextCall == RaiseOnMapping \/ RaiseOnColumns \/ RunBody

SpecCall == InitCall /\ [][NextCall]_vars

----------------------------------------------------------------------------
(* inventory_reconcile_gui.py: App                                          *)
(*                                                                          *)
(* threads holds one record per Thread that _run_compare has started, worker *)
(* is self._worker as a position in threads (0: None); after_q is the queue  *)
(* of callbacks handed to self.after(0, ...); ui is what the window shows.   *)

\* the CSV files on disk and their columns
FileColumns ==
    [p \in {"hnau.csv", "vs.csv"} |->
        IF p = "hnau.csv" THEN SrcColumns ELSE TgtColumns]

\* p and os.path.exists(p)
PathExists(p) == p \in DOMAIN FileColumns

\* a value that is neither None nor ""
Truthy(x) == x # Null /\ x # Some("")

\* [k for k in [a, b] if k]
TruthyOf(a, b) ==
    (IF Truthy(a) THEN <<a[1]>> ELSE <<>>) \o (IF Truthy(b) THEN <<b[1]>> ELSE <<>>)

\* s[a:b] of a list, positions counted from 0
Slice(s, a, b) ==
    IF a >= Len(s) THEN <<>>
    ELSE SubSeq(s, a + 1, IF b < Len(s) THEN b ELSE Len(s))

\* _resolve_keys_and_pairs: [*ks_src, *ks_tgt] and compare_pairs or []
ResolveKeys(st) ==
    TruthyOf(st.src_key1, st.src_key2) \o TruthyOf(st.tgt_key1, st.tgt_key2)
ResolvePairs(st) == IF st.compare_pairs = Null THEN <<>> ELSE st.compare_pairs[1]

\* src_keys = [k for k in ks_all[:2] if k], tgt_keys = [k for k in ks_all[2:] if k]
RunSrcKeys(st) == Slice(ResolveKeys(st), 0, 2)
RunTgtKeys(st) == Slice(ResolveKeys(st), 2, Len(ResolveKeys(st)))

IsAlive(th) == th.pc # "dead"

\* the names of the result sets in self._result_frames and of the tables
FrameNames ==
    {"Mismatches", "Only in HNAU", "Only in VS", "HNAU in & VS out", "VS in & HNAU out"}

\* a buffer that holds one result set only
ResultFramesMismatchesOnly(i) == [n \in {"Mismatches"} |-> i]

\* the dict that _do_compare assigns to self._result_frames: each result set
\* is written as the run that computed it
ResultFrames(i) == [n \in FrameNames |-> i]

\* WorkerBusy with the test left out
WorkerNeverBusy == FALSE

\* self._worker and self._worker.is_alive()
WorkerBusy == worker # 0 /\ IsAlive(threads[worker])

\* threading.Thread(target=self._do_compare, args=(src_keys, tgt_keys, pairs));
\* req_src and req_tgt record the paths at the time of the request, src_read
\* and tgt_read the files the thread has read
NewThread(sk, tk, pairs) ==
    [pc |-> "read_src", src_keys |-> sk, tgt_keys |-> tk, pairs |-> pairs,
     req_src |-> src_path, req_tgt |-> tgt_path,
     src_read |-> "", tgt_read |-> "", exc |-> <<>>]

NoMapping ==
    [src_key1 |-> Null, src_key2 |-> Null, tgt_key1 |-> Null, tgt_key2 |-> Null,
     compare_pairs |-> Null]

\* the App after __init__, no config file present
InitApp ==
    /\ mapping_state = NoMapping
    /\ src_path = "" /\ tgt_path = ""
    /\ threads = <<>> /\ worker = 0
    /\ result_frames = <<>>
    /\ after_q = <<>>
    /\ ui = [stats |-> 0, tables |-> [n \in FrameNames |-> 0], export |-> FALSE]
    /\ last_box = ""
    /\ config_file = Null
    /\ ParseIdle /\ ScriptIdle /\ GuiIdle /\ CallIdle /\ ToolsIdle

\* what no method of the App touches but _save_config
notApp == <<parseVars, scriptVars, guiVars, callVars, config_file, toolVars>>

\* _pick_src, _pick_tgt: the file dialog gives an existing file
_pick_src ==
    /\ \E p \in DOMAIN FileColumns : src_path' = p
    /\ UNCHANGED <<mapping_state, tgt_path, runVars, last_box, notApp>>

_pick_tgt ==
    /\ \E p \in DOMAIN FileColumns : tgt_path' = p
    /\ UNCHANGED <<mapping_state, src_path, runVars, last_box, notApp>>

\* the columns a combobox of the dialog offers among cands, and no choice ("")
Offered(cols, cands) == (cols \cap cands) \cup {""}

\* the rows of the dialog in which both a source and a target column are chosen
CompleteRows(rows) == SelectSeq(rows, LAMBDA r : r[1] # "" /\ r[2] # "")

\* _save that stores the four keys before it checks the choices
_saveKeysBeforeChecks(k1s, k2s, k1t, k2t, rows) ==
    /\ mapping_state' =
            [mapping_state EXCEPT
                !.src_key1 = Some(k1s),
                !.src_key2 = IF k2s # "" THEN Some(k2s) ELSE Null,
                !.tgt_key1 = Some(k1t),
                !.tgt_key2 = IF k2t # "" THEN Some(k2t) ELSE Null,
                !.compare_pairs = IF (k2s # "") = (k2t # "") /\ CompleteRows(rows) # <<>>
                                  THEN Some(CompleteRows(rows)) ELSE @]
    /\ UNCHANGED last_box

\* KeysAndPairsDialog._save with the choices k1s, k2s, k1t, k2t of the four key
\* boxes and the rows of compare pairs
_save(k1s, k2s, k1t, k2t, rows) ==
    IF Len(TruthyOf(Some(k2s), Null)) # Len(TruthyOf(Some(k2t), Null))
    THEN /\ last_box' = "Source/Target keys must have the same number of columns (1 or 2)."
         /\ UNCHANGED mapping_state
    ELSE IF CompleteRows(rows) = <<>>
    THEN /\ last_box' = "Add at least one compare column pair."
         /\ UNCHANGED mapping_state
    ELSE /\ mapping_state' =
                [src_key1 |-> Some(k1s),
                 src_key2 |-> IF k2s # "" THEN Some(k2s) ELSE Null,
                 tgt_key1 |-> Some(k1t),
                 tgt_key2 |-> IF k2t # "" THEN Some(k2t) ELSE Null,
                 compare_pairs |-> Some(CompleteRows(rows))]
         /\ UNCHANGED last_box

\* what the user can have chosen in the dialog when a button is pressed: the
\* two first keys, the two optional second keys, the rows of compare pairs
DialogChoices ==
    (FileColumns[src_path] \cap {"sku"})
        \X Offered(FileColumns[src_path], {"supplier_id"})
        \X (FileColumns[tgt_path] \cap {"supplier_sku"})
        \X Offered(FileColumns[tgt_path], {"account"})
        \X SeqsUpTo(Offered(FileColumns[src_path], {"qty"})
                    \X Offered(FileColumns[tgt_path], {"free_stock"}), MaxPairRows)

\* _open_mapping_dialog, the user's choices in the dialog, then Save or Cancel
\* (Cancel is self.destroy)
_open_mapping_dialog ==
    /\ IF ~(PathExists(src_path) /\ PathExists(tgt_path))
       THEN /\ last_box' = "Load both CSVs first."
            /\ UNCHANGED mapping_state
       ELSE \E button \in {"Save", "Cancel"} :
                IF button = "Save"
                THEN \E c \in DialogChoices : _save(c[1], c[2], c[3], c[4], c[5])
                ELSE UNCHANGED <<mapping_state, last_box>>
    /\ UNCHANGED <<src_path, tgt_path, runVars, notApp>>

_run_compare ==
    /\ IF ~PathExists(src_path)
       THEN last_box' = "Select a valid HNAU CSV." /\ UNCHANGED runVars
       ELSE IF ~PathExists(tgt_path)
       THEN last_box' = "Select a valid VS CSV." /\ UNCHANGED runVars
       ELSE IF KeysInvalid(RunSrcKeys(mapping_state), RunTgtKeys(mapping_state))
       THEN last_box' = "Select matching key counts (1 or 2)." /\ UNCHANGED runVars
       ELSE IF ResolvePairs(mapping_state) = <<>>
       THEN last_box' = "Add at least one compare column pair." /\ UNCHANGED runVars
       ELSE IF WorkerBusy
       THEN last_box' = "A compare is already running." /\ UNCHANGED runVars
       ELSE /\ Len(threads) < MaxRuns
            /\ result_frames' = <<>>
            /\ threads' = Append(threads, NewThread(RunSrcKeys(mapping_state),
                                                    RunTgtKeys(mapping_state),
                                                    ResolvePairs(mapping_state)))
            /\ worker' = Len(threads) + 1
            /\ UNCHANGED <<after_q, ui, last_box>>
    /\ UNCHANGED <<configVars, notApp>>

----------------------------------------------------------------------------
(* App._save_config and App._load_config                                    *)
(*                                                                          *)
(* A JSON value is [t |-> "null"], [t |-> "string", v |-> text] or           *)
(* [t |-> "array", v |-> the sequence of its items].                         *)

JsonNull == [t |-> "null"]
JsonString(s) == [t |-> "string", v |-> s]
JsonArray(items) == [t |-> "array", v |-> items]

\* json.dump of a key of the mapping: None or a str
DumpKey(k) == IF k = Null THEN JsonNull ELSE JsonString(k[1])

\* json.dump of compare_pairs: None, or a list of tuples, each written as an array
DumpPairs(ps) ==
    IF ps = Null THEN JsonNull
    ELSE JsonArray([k \in 1..Len(ps[1]) |->
                        JsonArray(<<JsonString(ps[1][k][1]), JsonString(ps[1][k][2])>>)])

\* the cfg that _save_config writes
DumpConfig(st, sp, tp) ==
    [mapping_state |-> [src_key1 |-> DumpKey(st.src_key1),
                        src_key2 |-> DumpKey(st.src_key2),
                        tgt_key1 |-> DumpKey(st.tgt_key1),
                        tgt_key2 |-> DumpKey(st.tgt_key2),
                        compare_pairs |-> DumpPairs(st.compare_pairs)],
     paths |-> [src_path |-> sp, tgt_path |-> tp]]

\* json.load of a key: null gives None, a string the str
LoadKey(j) == IF j.t = "null" THEN Null ELSE Some(j.v)

\* [tuple(p) for p in items if isinstance(p, (list, tuple)) and len(p) == 2]
IsPairItem(j) == j.t = "array" /\ Len(j.v) = 2
TupleOf(j) == <<j.v[1].v, j.v[2].v>>
LoadPairs(items) ==
    [k \in 1..Len(SelectSeq(items, IsPairItem)) |-> TupleOf(SelectSeq(items, IsPairItem)[k])]

\* _load_config(path) as _load_config_dialog calls it: the four keys are
\* assigned first; iterating a compare_pairs that is null raises TypeError,
\* which leaves the pairs and the paths as they were and is reported
_load_config(cfg) ==
    IF cfg.mapping_state.compare_pairs.t # "array"
    THEN /\ mapping_state' =
                [mapping_state EXCEPT
                    !.src_key1 = LoadKey(cfg.mapping_state.src_key1),
                    !.src_key2 = LoadKey(cfg.mapping_state.src_key2),
                    !.tgt_key1 = LoadKey(cfg.mapping_state.tgt_key1),
                    !.tgt_key2 = LoadKey(cfg.mapping_state.tgt_key2)]
         /\ last_box' = "Failed to load"
         /\ UNCHANGED <<src_path, tgt_path>>
    ELSE /\ mapping_state' =
                [src_key1 |-> LoadKey(cfg.mapping_state.src_key1),
                 src_key2 |-> LoadKey(cfg.mapping_state.src_key2),
                 tgt_key1 |-> LoadKey(cfg.mapping_state.tgt_key1),
                 tgt_key2 |-> LoadKey(cfg.mapping_state.tgt_key2),
                 compare_pairs |-> Some(LoadPairs(cfg.mapping_state.compare_pairs.v))]
         /\ src_path' = (IF cfg.paths.src_path # "" THEN cfg.paths.src_path ELSE src_path)
         /\ tgt_path' = (IF cfg.paths.tgt_path # "" THEN cfg.paths.tgt_path ELSE tgt_path)
         /\ last_box' = "Loaded"

\* _save_config_dialog: the config file is written
_save_config_dialog ==
    /\ config_file' = Some(DumpConfig(mapping_state, src_path, tgt_path))
    /\ last_box' = "Saved"
    /\ UNCHANGED <<configVars, runVars, parseVars, scriptVars, guiVars, callVars, toolVars>>

\* _load_config_dialog: the user picks the config file, which exists
_load_config_dialog ==
    /\ config_file # Null
    /\ _load_config(config_file[1])
    /\ UNCHANGED <<runVars, notApp>>

\* the App while no compare is requested: files, mapping dialog, config file
NextConfig ==
    \/ _pick_src \/ _pick_tgt \/ _open_mapping_dialog
    \/ _save_config_dialog \/ _load_config_dialog

SpecConfig == InitApp /\ [][NextConfig]_vars

----------------------------------------------------------------------------
(* App._do_compare, the body of a worker thread *)

src_need(th) == ElemsOf(th.src_keys) \cup {th.pairs[j][1] : j \in 1..Len(th.pairs)}
tgt_need(th) == ElemsOf(th.tgt_keys) \cup {th.pairs[j][2] : j \in 1..Len(th.pairs)}

\* read_csv_smart(path, usecols=need) fails: the RuntimeError names the path
\* and the columns of need that this file lacks
ReadFails(path, need) == ~PathExists(path) \/ need \ FileColumns[path] # {}
MissingIn(path, need) == IF PathExists(path) THEN need \ FileColumns[path] ELSE {}

RuntimeErrorSrc(path, need) ==
    [type |-> "RuntimeError", path |-> path,
     src_missing |-> MissingIn(path, need), tgt_missing |-> {}]
RuntimeErrorTgt(path, need) ==
    [type |-> "RuntimeError", path |-> path,
     src_missing |-> {}, tgt_missing |-> MissingIn(path, need)]

\* the columns of a frame read with usecols=need
ReadColumns(path, need) == need \cap FileColumns[path]

\* raise KeyError(f"Missing columns.\nSource missing: ...\nTarget missing: ...")
MissingColumnsError(ms, mt) ==
    [type |-> "KeyError", path |-> "", src_missing |-> ms, tgt_missing |-> mt]

\* an exception that compute_diff_pairs lets escape on the data of the files
DataError == [type |-> "OverflowError", path |-> "", src_missing |-> {}, tgt_missing |-> {}]

SetThread(i, th) == threads' = [threads EXCEPT ![i] = th]

\* src_df = read_csv_smart(self.src_path.get(), usecols=src_need)
ReadSrc(i) ==
    /\ threads[i].pc = "read_src"
    /\ IF ReadFails(src_path, src_need(threads[i]))
       THEN SetThread(i, [threads[i] EXCEPT
                !.pc = "except",
                !.exc = RuntimeErrorSrc(src_path, src_need(threads[i]))])
       ELSE SetThread(i, [threads[i] EXCEPT !.pc = "read_tgt", !.src_read = src_path])
    /\ UNCHANGED <<configVars, worker, result_frames, after_q, ui, last_box, notApp>>

\* tgt_df = read_csv_smart(self.tgt_path.get(), usecols=tgt_need)
ReadTgt(i) ==
    /\ threads[i].pc = "read_tgt"
    /\ IF ReadFails(tgt_path, tgt_need(threads[i]))
       THEN SetThread(i, [threads[i] EXCEPT
                !.pc = "except",
                !.exc = RuntimeErrorTgt(tgt_path, tgt_need(threads[i]))])
       ELSE SetThread(i, [threads[i] EXCEPT !.pc = "compute", !.tgt_read = tgt_path])
    /\ UNCHANGED <<configVars, worker, result_frames, after_q, ui, last_box, notApp>>

miss_src(th) == src_need(th) \ ReadColumns(th.src_read, src_need(th))
miss_tgt(th) == tgt_need(th) \ ReadColumns(th.tgt_read, tgt_need(th))

\* the check of miss_src and miss_tgt, then the call of compute_diff_pairs,
\* which returns or raises on the data
Compute(i) ==
    /\ threads[i].pc = "compute"
    /\ IF miss_src(threads[i]) # {} \/ miss_tgt(threads[i]) # {}
       THEN SetThread(i, [threads[i] EXCEPT
                !.pc = "except",
                !.exc = MissingColumnsError(miss_src(threads[i]), miss_tgt(threads[i]))])
       ELSE \E raises \in BOOLEAN :
                IF raises
                THEN SetThread(i, [threads[i] EXCEPT !.pc = "except", !.exc = DataError])
                ELSE SetThread(i, [threads[i] EXCEPT !.pc = "store"])
    /\ UNCHANGED <<configVars, worker, result_frames, after_q, ui, last_box, notApp>>

\* self._result_frames = {...}: the five frames of this run
Store(i) ==
    /\ threads[i].pc = "store"
    /\ result_frames' = ResultFrames(i)
    /\ SetThread(i, [threads[i] EXCEPT !.pc = "schedule"])
    /\ UNCHANGED <<configVars, worker, after_q, ui, last_box, notApp>>

\* self.after(0, lambda: self._apply_stats_and_tables(stats))
ScheduleApply(i) ==
    /\ threads[i].pc = "schedule"
    /\ after_q' = Append(after_q, [fn |-> "_apply_stats_and_tables", run |-> i, msg |-> <<>>])
    /\ SetThread(i, [threads[i] EXCEPT !.pc = "finally"])
    /\ UNCHANGED <<configVars, worker, result_frames, ui, last_box, notApp>>

\* except Exception as e: self.after(0, lambda m=msg: messagebox.showerror(...))
Except(i) ==
    /\ threads[i].pc = "except"
    /\ after_q' = Append(after_q, [fn |-> "showerror", run |-> i, msg |-> threads[i].exc])
    /\ SetThread(i, [threads[i] EXCEPT !.pc = "finally"])
    /\ UNCHANGED <<configVars, worker, result_frames, ui, last_box, notApp>>

\* finally: self.after(0, self._enable_export_if_ready)
Finally(i) ==
    /\ threads[i].pc = "finally"
    /\ after_q' = Append(after_q, [fn |-> "_enable_export_if_ready", run |-> i, msg |-> <<>>])
    /\ SetThread(i, [threads[i] EXCEPT !.pc = "exiting"])
    /\ UNCHANGED <<configVars, worker, result_frames, ui, last_box, notApp>>

\* a thread that stays in _do_compare for ever
ThreadNeverExits(i) ==
    /\ threads[i].pc = "exiting"
    /\ UNCHANGED vars

\* _do_compare returns and the thread ends
ThreadExit(i) ==
    /\ threads[i].pc = "exiting"
    /\ SetThread(i, [threads[i] EXCEPT !.pc = "dead"])
    /\ UNCHANGED <<configVars, worker, result_frames, after_q, ui, last_box, notApp>>

_do_compare ==
    \E i \in 1..Len(threads) :
        \/ ReadSrc(i) \/ ReadTgt(i) \/ Compute(i) \/ Store(i)
        \/ ScheduleApply(i) \/ Except(i) \/ Finally(i) \/ ThreadExit(i)

----------------------------------------------------------------------------
(* App: the callbacks the Tk main loop runs *)

\* _apply_stats_and_tables(stats): the stats of the run that scheduled it, and
\* each table that self._result_frames names now is filled from it
_apply_stats_and_tables(cb) ==
    /\ ui' = [ui EXCEPT !.stats = cb.run,
                        !.tables = [n \in FrameNames |->
                                        IF n \in DOMAIN result_frames
                                        THEN result_frames[n] ELSE ui.tables[n]]]
    /\ UNCHANGED last_box

\* messagebox.showerror("Compare failed", m)
showerror(cb) ==
    /\ last_box' = "Compare failed"
    /\ UNCHANGED ui

_enable_export_if_ready ==
    /\ ui' = [ui EXCEPT !.export = IF result_frames # <<>> THEN TRUE ELSE @]
    /\ UNCHANGED last_box

\* the main loop runs the oldest callback handed to after(0, ...)
RunCallback ==
    /\ after_q # <<>>
    /\ CASE Head(after_q).fn = "_apply_stats_and_tables" -> _apply_stats_and_tables(Head(after_q))
         [] Head(after_q).fn = "showerror" -> showerror(Head(after_q))
         [] OTHER -> _enable_export_if_ready
    /\ after_q' = Tail(after_q)
    /\ UNCHANGED <<configVars, threads, worker, result_frames, notApp>>

NextApp == _pick_src \/ _pick_tgt \/ _open_mapping_dialog \/ _run_compare \/ _do_compare \/ RunCallback

SpecApp == InitApp /\ [][NextApp]_vars

\* the mappings a default config file written by _save_config after a valid
\* Save of the dialog holds: one key or two keys per side, one compare pair
DefaultConfigMappings ==
    {[src_key1 |-> Some("sku"), src_key2 |-> k2[1],
      tgt_key1 |-> Some("supplier_sku"), tgt_key2 |-> k2[2],
      compare_pairs |-> Some(<< <<"qty", "free_stock">> >>)] :
        k2 \in {<<Null, Null>>, <<Some("supplier_id"), Some("account")>>}}

\* the App after __init__: without a default config file, or with one, whose
\* mapping and non-empty paths _load_config has taken over
InitAppLoaded ==
    /\ \/ mapping_state = NoMapping /\ src_path = "" /\ tgt_path = ""
       \/ /\ mapping_state \in DefaultConfigMappings
          /\ src_path \in {""} \cup DOMAIN FileColumns
          /\ tgt_path \in {""} \cup DOMAIN FileColumns
    /\ threads = <<>> /\ worker = 0
    /\ result_frames = <<>>
    /\ after_q = <<>>
    /\ ui = [stats |-> 0, tables |-> [n \in FrameNames |-> 0], export |-> FALSE]
    /\ last_box = ""
    /\ config_file = Null
    /\ ParseIdle /\ ScriptIdle /\ GuiIdle /\ CallIdle /\ ToolsIdle

\* a session in which the mapping dialog is not opened: files are picked,
\* compares are requested, workers and callbacks run
NextRun == _pick_src \/ _pick_tgt \/ _run_compare \/ _do_compare \/ RunCallback

\* the interpreter keeps running a started thread, and the Tk main loop keeps
\* running the callbacks handed to after(0, ...)
SpecAppLive ==
    InitAppLoaded /\ [][NextRun]_vars /\ WF_vars(_do_compare) /\ WF_vars(RunCallback)

----------------------------------------------------------------------------
(* oos_eol_identifier.py: fetch_all_orders and APIClient.fetch_paginated_data *)

\* The server holds the orders 1..server_count of the part number.  A GET with
\* offset and limit answers 200 with the orders offset+1 .. offset+limit that
\* exist; every request succeeds at its first attempt.
Results(off, lim) ==
    LET left == IF server_count > off THEN server_count - off ELSE 0
        n == IF lim < left THEN lim ELSE left
    IN  [i \in 1..n |-> off + i]

\* fetch_all_orders is called: settings are loaded, nothing is fetched yet
InitFetch ==
    /\ server_count \in 0..MaxOrders
    /\ limit \in 1..MaxBatch
    /\ batch_size \in 1..MaxBatch
    /\ offset = 0
    /\ all_orders = <<>>
    /\ req_offset = 0 /\ all_results = <<>>
    /\ fpc = "loop"
    /\ ParseIdle /\ ScriptIdle /\ GuiIdle /\ CallIdle /\ AppIdle /\ StockIdle

\* top of the while loop of fetch_all_orders: the offset is written to
\* settings["params"] and fetch_paginated_data starts from it with an empty
\* all_results
fetch_all_orders_call ==
    /\ fpc = "loop"
    /\ req_offset' = offset
    /\ all_results' = <<>>
    /\ fpc' = "request"
    /\ UNCHANGED <<server_count, limit, batch_size, offset, all_orders>>
    /\ UNCHANGED <<parseVars, scriptVars, guiVars, callVars, appVars, stockVars>>

\* one turn of the while loop of fetch_paginated_data: the request, the
\* extension of all_results, the test of the batch length, the next offset
fetch_paginated_data ==
    /\ fpc = "request"
    /\ LET batch == Results(req_offset, limit)
       IN  /\ all_results' = all_results \o batch
           /\ IF Len(batch) < batch_size
              THEN fpc' = "returned" /\ UNCHANGED req_offset
              ELSE fpc' = "request" /\ req_offset' = req_offset + batch_size
    /\ UNCHANGED <<server_count, limit, batch_size, offset, all_orders>>
    /\ UNCHANGED <<parseVars, scriptVars, guiVars, callVars, appVars, stockVars>>

\* rest of the turn of the while loop of fetch_all_orders, with orders_batch
\* the list fetch_paginated_data returned
fetch_all_orders_extend ==
    /\ fpc = "returned"
    /\ IF all_results = <<>>
       THEN fpc' = "done" /\ UNCHANGED <<all_orders, offset>>
       ELSE /\ all_orders' = all_orders \o all_results
            /\ IF Len(all_results) < batch_size
               THEN fpc' = "done" /\ UNCHANGED offset
               ELSE fpc' = "loop" /\ offset' = offset + batch_size
    /\ UNCHANGED <<server_count, limit, batch_size, req_offset, all_results>>
    /\ UNCHANGED <<parseVars, scriptVars, guiVars, callVars, appVars, stockVars>>

NextFetch == fetch_all_orders_call \/ fetch_paginated_data \/ fetch_all_orders_extend

SpecFetch == InitFetch /\ [][NextFetch]_vars

----------------------------------------------------------------------------
(* critical_stock_analysis.py: the stock-status pass over the worksheet *)

\* the value of a quantity cell: None for an empty cell, else an integer
StockQtyCells == {Null} \cup {Some(q) : q \in -1..1}

\* a data row as loaded: the two added columns are empty
StockRows ==
    [quantity_warehouse : StockQtyCells, quantity_ecommerce : StockQtyCells,
     StockStatus : {Null}, Validation : {Null}]

\* the workbook is loaded and the two header cells are in place; row 1 holds
\* the headers, ws[k] is the worksheet row k + 1
InitStock ==
    /\ ws \in SeqsUpTo(StockRows, MaxStockRows)
    /\ ws_row = 2
    /\ kpc = "loop"
    /\ ParseIdle /\ ScriptIdle /\ GuiIdle /\ CallIdle /\ AppIdle /\ FetchIdle

\* lines 28-39: the if/elif chain that chooses the status
StockStatusOf(qty_wh, qty_ec) ==
    IF qty_wh = Null \/ qty_ec = Null THEN "Missing data"
    ELSE IF qty_wh[1] <= 0 /\ qty_ec[1] <= 0 THEN "Out of stock in both warehouse and ecommerce"
    ELSE IF qty_wh[1] <= 0 THEN "Stock available in ecommerce only"
    ELSE IF qty_ec[1] <= 0 THEN "Stock available in warehouse only"
    ELSE "Stock available in both warehouse and ecommerce"

\* line 43, qty_wh < 0 or qty_ec < 0: comparing None with 0 raises TypeError;
\* the right operand is evaluated only when the left one is false
NegativeTest(qty_wh, qty_ec) ==
    IF qty_wh = Null THEN "TypeError"
    ELSE IF qty_wh[1] < 0 THEN "true"
    ELSE IF qty_ec = Null THEN "TypeError"
    ELSE IF qty_ec[1] < 0 THEN "true"
    ELSE "false"

\* the body of the for loop for the worksheet row ws_row
stock_row ==
    /\ kpc = "loop"
    /\ ws_row <= Len(ws) + 1
    /\ LET k == ws_row - 1
           qty_wh == ws[k].quantity_warehouse
           qty_ec == ws[k].quantity_ecommerce
           test == NegativeTest(qty_wh, qty_ec)
       IN  IF test = "TypeError"
           THEN /\ ws' = [ws EXCEPT ![k].StockStatus = Some(StockStatusOf(qty_wh, qty_ec))]
                /\ kpc' = "TypeError"
                /\ UNCHANGED ws_row
           ELSE /\ ws' = [ws EXCEPT ![k].StockStatus = Some(StockStatusOf(qty_wh, qty_ec)),
                                    ![k].Validation =
                                        Some(IF test = "true" THEN "Check negative stock"
                                             ELSE "Stock Qty Data Type Validation PASS")]
                /\ ws_row' = ws_row + 1
                /\ UNCHANGED kpc
    /\ UNCHANGED <<parseVars, scriptVars, guiVars, callVars, appVars, fetchVars>>

\* range(2, ws.max_row + 1) is exhausted: the script goes on to the pivot sheet
stock_loop_end ==
    /\ kpc = "loop"
    /\ ws_row > Len(ws) + 1
    /\ kpc' = "pivot"
    /\ UNCHANGED <<ws, ws_row>>
    /\ UNCHANGED <<parseVars, scriptVars, guiVars, callVars, appVars, fetchVars>>

NextStock == stock_row \/ stock_loop_end

SpecStock == InitStock /\ [][NextStock]_vars

----------------------------------------------------------------------------
(* Claims about parse_qty_to_int, under SpecParse *)

\* C3: parse_qty_to_int is total: for every raw cell the call returns an
\* integer and lets no exception escape.
C3_ParseNeverRaises == ppc = "done" => out.exc = "none"

\* floor(|d| + 1/2) with the sign of d, for d = sg * (w + f/10)
HalfAwayFromZero(sg, w, f) == sg * ((10 * w + f + 5) \div 10)

\* C4: a decimal with one fractional digit is rounded to the nearest integer,
\* ties away from zero: the result is floor(|d| + 1/2) with the sign of d, and
\* the negation of that when the text is wrapped in parentheses.
C4_RoundsHalfAwayFromZero ==
    \A sg \in Signs, w \in Wholes, f \in 0..9 :
        /\ (ppc = "done" /\ raw = DecText(sg, w, f))
               => out = Ok(HalfAwayFromZero(sg, w, f))
        /\ (ppc = "done" /\ raw = InParens(DecText(sg, w, f)))
               => out = Ok(0 - HalfAwayFromZero(sg, w, f))

C4_Witness == ppc = "done" /\ raw = <<"(", "0", ".", "5", ")">> /\ out = Ok(-1)

\* characters that occur in no numeral, whatever its notation
NonNumeralChars == {"b", "c", "x", "<", ">"}

IsBlankText(x) == \A i \in 1..Len(x) : x[i] \in Whitespace

IsNullOrNanWord(x) ==
    \/ /\ Len(x) = 4
       /\ x[1] \in {"N", "n"} /\ x[2] \in {"U", "u"}
       /\ x[3] \in {"L", "l"} /\ x[4] \in {"L", "l"}
    \/ /\ Len(x) = 3
       /\ x[1] \in {"N", "n"} /\ x[2] \in {"A", "a"} /\ x[3] \in {"N", "n"}

C6_IntegerTexts ==
    \A n \in IntSamples, st \in Styles, pad \in Pads :
        /\ (ppc = "done" /\ raw = IntText(n, st, pad)) => out = Ok(n)
        /\ (ppc = "done" /\ raw = InParens(IntText(n, st, pad))) => out = Ok(0 - n)

C6_Witness ==
    ppc = "done" /\ raw = <<"(", "1", ",", "2", "3", "4", ")">> /\ out = Ok(-1234)

----------------------------------------------------------------------------
(* Claims about compute_diff_pairs, under SpecGui *)

MergedRows == 1..Len(merged)

\* a key with an absent or blank cell
IsKeyless(k) == \E c \in 1..Len(k) : clean_sku(k[c]) = PyNone

\* the keys of the union of the two frames, as the cells the frames hold them
\* (a row with an absent or blank key cell has no key)
RawKeys ==
    {k \in {df_src[i].k : i \in 1..Len(df_src)} \cup {df_tgt[j].k : j \in 1..Len(df_tgt)} :
        ~IsKeyless(k)}

\* the classifications of one merged row
ClassesOf(m) ==
    {c \in {"MATCH", "QTY_MISMATCH", "ONLY_IN_SOURCE", "ONLY_IN_TARGET"} :
        \/ c = "MATCH" /\ SameMask(m)
        \/ c = "QTY_MISMATCH" /\ MismatchMask(m)
        \/ c = "ONLY_IN_SOURCE" /\ OnlySrcMask(m)
        \/ c = "ONLY_IN_TARGET" /\ OnlyTgtMask(m)}

KeyClasses(K) == UNION {ClassesOf(merged[n]) : n \in {x \in MergedRows : merged[x].k = K}}

\* C1: every key of the union of the two tables carries exactly one of the
\* four classifications, also when it occurs in several raw rows.
C1_OneClassPerKey ==
    gpc = "done" => \A K \in RawKeys : Cardinality(KeyClasses(K)) = 1

\* the two raw rows a both-present record comes from agree on every compare
\* pair: the normalized integers are equal, an absent cell counting as 0
RawPairsEqual(m) ==
    \A i \in 1..NPairs :
        parse_qty_to_int(df_src[m.li].v[i]).val = parse_qty_to_int(df_tgt[m.ri].v[i]).val

BothRows == {n \in MergedRows : merged[n].merge_ind = "both"}

\* C2: a both-present record is counted as same iff every compare pair is
\* equal, and is a modified record (a row of the mismatches) otherwise.
C2_SameIffEveryPairEqual ==
    gpc = "done" =>
        /\ res.stats.same = Cardinality({n \in BothRows : RawPairsEqual(merged[n])})
        /\ res.stats.modified = Cardinality({n \in BothRows : ~RawPairsEqual(merged[n])})
        /\ Len(res.diff_df) = res.stats.modified
        /\ \A n \in BothRows :
              ~RawPairsEqual(merged[n]) <=>
                  \E d \in 1..Len(res.diff_df) :
                      /\ res.diff_df[d].key = merged[n].key
                      /\ res.diff_df[d].src = merged[n].src
                      /\ res.diff_df[d].tgt = merged[n].tgt

\* a blank source cell against target "0" on the first pair, the second pair equal
C2_Witness ==
    /\ gpc = "done"
    /\ res.stats.same = 1
    /\ \E n \in BothRows :
          /\ df_src[merged[n].li].v[1] = PdNA
          /\ df_tgt[merged[n].ri].v[1] = <<"0">>

\* two key tuples that differ at most in letter case and surrounding whitespace
SameCleanKey(a, b) ==
    \A c \in 1..Len(a) : clean_sku(a[c]) # PyNone /\ clean_sku(a[c]) = clean_sku(b[c])

\* C7: a source row and a target row whose keys differ only in letter case or
\* surrounding whitespace are joined as one both-present record.
C7_KeysJoinIgnoringCaseAndSpace ==
    gpc = "done" =>
        \A i \in 1..Len(df_src), j \in 1..Len(df_tgt) :
            SameCleanKey(df_src[i].k, df_tgt[j].k) =>
                \E n \in BothRows : merged[n].li = i /\ merged[n].ri = j

\* the records of the three classified result sets that carry key text kt
RecordsWithKey(kt) ==
    Cardinality({d \in 1..Len(res.diff_df) : res.diff_df[d].key = kt})
    + Cardinality({d \in 1..Len(res.only_src) : res.only_src[d].key = kt})
    + Cardinality({d \in 1..Len(res.only_tgt) : res.only_tgt[d].key = kt})

\* C8: the result holds exactly one joined record per distinct key of the
\* union, also when a key occurs in several raw rows, and no key appears in
\* two records of the result sets.
C8_OneRecordPerKey ==
    gpc = "done" =>
        \A K \in RawKeys :
            /\ Cardinality({n \in MergedRows : merged[n].k = K}) = 1
            /\ RecordsWithKey(JoinKey(K)) <= 1

KeyedRows(df) == {i \in 1..Len(df) : ~IsKeyless(df[i].k)}

\* C10: a raw row whose key cell is absent or blank is dropped before the
\* join: no joined record comes from it and the row totals do not count it.
C10_KeylessRowsDropped ==
    gpc = "done" =>
        /\ \A n \in MergedRows : ~IsKeyless(merged[n].k)
        /\ res.stats.hnau_rows = Cardinality(KeyedRows(df_src))
        /\ res.stats.vs_rows = Cardinality(KeyedRows(df_tgt))

\* the key cells K occur in a row of the source and in a row of the target
KeyInBoth(K) ==
    /\ \E i \in 1..Len(df_src) : df_src[i].k = K
    /\ \E j \in 1..Len(df_tgt) : df_tgt[j].k = K

\* the first compare pair of the raw rows a both-present record comes from
RawFirstSrc(m) == parse_qty_to_int(df_src[m.li].v[1]).val
RawFirstTgt(m) == parse_qty_to_int(df_tgt[m.ri].v[1]).val

RawSrcInTgtOut(m) == KeyInBoth(m.k) /\ RawFirstSrc(m) > 0 /\ RawFirstTgt(m) <= 0
RawTgtInSrcOut(m) == KeyInBoth(m.k) /\ RawFirstTgt(m) > 0 /\ RawFirstSrc(m) <= 0

\* the records of an availability set, from the joined records in it
AvailabilityRecords(ms) ==
    [n \in 1..Len(ms) |->
        [key |-> ms[n].key, val0_src |-> Some(RawFirstSrc(ms[n])),
         val0_tgt |-> Some(RawFirstTgt(ms[n]))]]

OnlyKeyTexts ==
    {res.only_src[d].key : d \in 1..Len(res.only_src)}
    \cup {res.only_tgt[d].key : d \in 1..Len(res.only_tgt)}

\* C11: a joined record is in 'source in & target out' iff its key is in both
\* tables and the first compare pair has source quantity > 0 and target
\* quantity <= 0, symmetrically for 'target in & source out'; later pairs have
\* no say, and no only-in-source or only-in-target key is in either set.
C11_AvailabilityByFirstPair ==
    gpc = "done" =>
        /\ res.src_in_tgt_out = AvailabilityRecords(SelectSeq(merged, RawSrcInTgtOut))
        /\ res.tgt_in_src_out = AvailabilityRecords(SelectSeq(merged, RawTgtInSrcOut))
        /\ \A d \in 1..Len(res.src_in_tgt_out) : res.src_in_tgt_out[d].key \notin OnlyKeyTexts
        /\ \A d \in 1..Len(res.tgt_in_src_out) : res.tgt_in_src_out[d].key \notin OnlyKeyTexts

\* source (0, 1) against target (5, 0): the second pair has source > 0 and
\* target <= 0, the first has not, and the record is in 'target in & source out' only
C11_Witness ==
    /\ gpc = "done"
    /\ df_src = <<[k |-> <<<<"A", "1">>>>, v |-> <<<<"0">>, <<"1">>>>]>>
    /\ df_tgt = <<[k |-> <<<<"A", "1">>>>, v |-> <<<<"5">>, <<"0">>>>]>>
    /\ res.src_in_tgt_out = <<>>
    /\ Len(res.tgt_in_src_out) = 1

\* |target - source| of the first compare pair of a row of the mismatches
DiffMagnitude(r) == Abs(Coalesce(r.tgt[1], 0) - Coalesce(r.src[1], 0))

\* every row of the frame has a key, and no key occurs in two rows
KeysUnique(df) ==
    /\ \A i \in 1..Len(df) : ~IsKeyless(df[i].k)
    /\ \A i, j \in 1..Len(df) : df[i].k = df[j].k => i = j

\* C12: the mismatches are in descending order of the absolute difference of
\* the first compare pair, rows of equal magnitude in ascending order of key
\* (stated for frames whose rows all have a key, each key once).
C12_MismatchesByMagnitude ==
    (gpc = "done" /\ KeysUnique(df_src) /\ KeysUnique(df_tgt)) =>
        \A d \in 1..(Len(res.diff_df) - 1) :
            \/ DiffMagnitude(res.diff_df[d]) > DiffMagnitude(res.diff_df[d + 1])
            \/ /\ DiffMagnitude(res.diff_df[d]) = DiffMagnitude(res.diff_df[d + 1])
               /\ TextLess(res.diff_df[d].key, res.diff_df[d + 1].key)

\* every row of the frame has a key
AllKeyed(df) == \A i \in 1..Len(df) : ~IsKeyless(df[i].k)

\* the distinct keys of one frame
KeysOf(df) == {df[i].k : i \in 1..Len(df)}

\* C14: same + modified + removed + added is the number of distinct keys in
\* the union of the two tables, also for tables with repeated keys (stated
\* for frames whose rows all have a key).
C14_CountersCoverKeyUnion ==
    (gpc = "done" /\ AllKeyed(df_src) /\ AllKeyed(df_tgt)) =>
        res.stats.same + res.stats.modified + res.stats.removed + res.stats.added
            = Cardinality(KeysOf(df_src) \cup KeysOf(df_tgt))

\* C15: hnau_rows and vs_rows are the numbers of distinct keys of the two
\* tables, so hnau_rows = same + modified + removed and vs_rows = same +
\* modified + added (stated for frames whose rows all have a key).
C15_RowTotalsAfterAggregation ==
    (gpc = "done" /\ AllKeyed(df_src) /\ AllKeyed(df_tgt)) =>
        /\ res.stats.hnau_rows = Cardinality(KeysOf(df_src))
        /\ res.stats.vs_rows = Cardinality(KeysOf(df_tgt))
        /\ res.stats.hnau_rows = res.stats.same + res.stats.modified + res.stats.removed
        /\ res.stats.vs_rows = res.stats.same + res.stats.modified + res.stats.added

----------------------------------------------------------------------------
(* Claims about compare_inventory.py, under SpecScript *)

CleanKeys(df) == {clean_sku(df[i].sku) : i \in 1..Len(df)} \ {PyNone}

\* the sum of parse_qty_to_int over the raw rows of df whose cleaned key is K
RECURSIVE RawQtySum(_, _)
RawQtySum(df, K) ==
    IF df = <<>> THEN 0
    ELSE (IF clean_sku(Head(df).sku) = K THEN ParsedCell[Head(df).qty].val ELSE 0)
         + RawQtySum(Tail(df), K)

Aggregates(df, norm) ==
    /\ {norm[j].sku : j \in 1..Len(norm)} = CleanKeys(df)
    /\ \A K \in CleanKeys(df) : Cardinality({j \in 1..Len(norm) : norm[j].sku = K}) = 1
    /\ \A j \in 1..Len(norm) : norm[j].qty = RawQtySum(df, norm[j].sku)

\* C9: in hnau_norm and vs_norm each cleaned key has exactly one row, whose qty
\* is the sum of parse_qty_to_int over all raw rows sharing the cleaned key.
C9_NormSumsPerCleanKey ==
    spc \in {"normalized", "done"} =>
        Aggregates(hnau_df, hnau_norm) /\ Aggregates(vs_df, vs_norm)

\* rows keyed "A1" and "a1 " with quantities 5 and 7 give one row A1 -> 12
C9_Witness ==
    /\ spc = "normalized"
    /\ hnau_df = <<[sku |-> <<"A", "1">>, qty |-> <<"5">>],
                   [sku |-> <<"a", "1", " ">>, qty |-> <<"7">>]>>
    /\ hnau_norm = <<[sku |-> <<"A", "1">>, qty |-> 12]>>

\* the cleaned keys of both tables whose summed quantities differ
ScriptMismatchKeys ==
    {K \in CleanKeys(hnau_df) \cap CleanKeys(vs_df) :
        RawQtySum(hnau_df, K) # RawQtySum(vs_df, K)}

\* |vs_qty - hnau_qty| of cleaned key K, from the raw rows
RawAbsDiff(K) == Abs(RawQtySum(vs_df, K) - RawQtySum(hnau_df, K))

SkusOf(rows) == {rows[n].sku : n \in 1..Len(rows)}

\* the rows hold exactly the keys of set S, each once, in ascending order of sku
AscendingSkus(rows, S) ==
    /\ SkusOf(rows) = S
    /\ Len(rows) = Cardinality(S)
    /\ \A n \in 1..(Len(rows) - 1) : TextLess(rows[n].sku, rows[n + 1].sku)

\* C13: the exported mismatch rows are exactly the QTY_MISMATCH records, by
\* descending |vs_qty - hnau_qty| and then ascending sku; the only-in-HNAU and
\* only-in-VS rows are in ascending order of sku.
C13_ScriptExportOrder ==
    spc = "done" =>
        /\ SkusOf(mismatches_df) = ScriptMismatchKeys
        /\ Len(mismatches_df) = Cardinality(ScriptMismatchKeys)
        /\ \A n \in 1..Len(mismatches_df) : mismatches_df[n].status = "QTY_MISMATCH"
        /\ \A n \in 1..(Len(mismatches_df) - 1) :
              LET r1 == mismatches_df[n].sku
                  r2 == mismatches_df[n + 1].sku
              IN  \/ RawAbsDiff(r1) > RawAbsDiff(r2)
                  \/ RawAbsDiff(r1) = RawAbsDiff(r2) /\ TextLess(r1, r2)
        /\ AscendingSkus(only_hnau_df, CleanKeys(hnau_df) \ CleanKeys(vs_df))
        /\ AscendingSkus(only_vs_df, CleanKeys(vs_df) \ CleanKeys(hnau_df))

\* A1 with 5 against 7 and B2 with 1 against 7: the mismatches are [B2, A1]
C13_Witness ==
    /\ spc = "done"
    /\ Len(mismatches_df) = 2
    /\ mismatches_df[1].sku = <<"B", "2">> /\ Abs(mismatches_df[1].qty_diff) = 6
    /\ mismatches_df[2].sku = <<"A", "1">> /\ Abs(mismatches_df[2].qty_diff) = 2

\* the sum of RawAbsDiff over the keys of set S
RECURSIVE SumAbsDiff(_)
SumAbsDiff(S) ==
    IF S = {} THEN 0
    ELSE LET K == CHOOSE x \in S : TRUE
         IN  RawAbsDiff(K) + SumAbsDiff(S \ {K})

\* C16: sum_abs_qty_diff and avg_abs_qty_diff are taken over the QTY_MISMATCH
\* records only; the average is the sum divided by the number of mismatches
\* when there is one, and NULL (no data), not 0, when there is none.
C16_MismatchMagnitudeStats ==
    spc = "done" =>
        IF ScriptMismatchKeys = {}
        THEN /\ stats_df.avg_abs_qty_diff = Null
             /\ stats_df.sum_abs_qty_diff \in {Null, Some(0)}
        ELSE /\ stats_df.sum_abs_qty_diff = Some(SumAbsDiff(ScriptMismatchKeys))
             /\ stats_df.avg_abs_qty_diff =
                    Some([sum |-> SumAbsDiff(ScriptMismatchKeys),
                          count |-> Cardinality(ScriptMismatchKeys)])

\* one mismatch of magnitude 2 beside an only-in-VS record: the average is 2 / 1
C16_Witness ==
    /\ spc = "done"
    /\ Len(joined) = 2
    /\ \E n \in 1..2 : joined[n].status = "ONLY_IN_VS"
    /\ stats_df.avg_abs_qty_diff = Some([sum |-> 2, count |-> 1])

----------------------------------------------------------------------------
(* Claims about the arguments of compute_diff_pairs, under SpecCall *)

\* C17: the call fails with an error, before any column access, conversion or
\* join and without a result, when the two key lists differ in length, a key
\* list is empty, or there is no compare pair.
C17_BadMappingFailsFirst ==
    (/\ cpc # "call"
     /\ \/ Len(call.src_keys) # Len(call.tgt_keys)
        \/ call.src_keys = <<>>
        \/ call.tgt_keys = <<>>
        \/ call.compare_pairs = <<>>)
    => (cpc = "raised" /\ cexc.type = "ValueError" /\ ctrace = <<>>)

\* one source key against two target keys, every column present
C17_Witness ==
    /\ cpc = "raised"
    /\ call.src_keys = <<"sku">>
    /\ call.tgt_keys = <<"supplier_sku", "account">>
    /\ call.compare_pairs # <<>>
    /\ call.src_columns = SrcColumns /\ call.tgt_columns = TgtColumns
    /\ cexc.type = "ValueError"

\* C18: when the mapping names columns a frame lacks, the call fails with one
\* error that lists every missing column of the source and every missing
\* column of the target.
C18_AllMissingColumnsListed ==
    (/\ cpc # "call"
     /\ ~KeysInvalid(call.src_keys, call.tgt_keys)
     /\ call.compare_pairs # <<>>
     /\ (src_keep(call) \ call.src_columns # {} \/ tgt_keep(call) \ call.tgt_columns # {}))
    => /\ cpc = "raised"
       /\ cexc.src_missing = src_keep(call) \ call.src_columns
       /\ cexc.tgt_missing = tgt_keep(call) \ call.tgt_columns

----------------------------------------------------------------------------
(* Claims about App._run_compare and the worker, under SpecApp *)

SourceKeys(st) == TruthyOf(st.src_key1, st.src_key2)
TargetKeys(st) == TruthyOf(st.tgt_key1, st.tgt_key2)

\* one key column per side, or two per side
OneOrTwoPerSide(st) ==
    /\ Truthy(st.src_key1) /\ Truthy(st.tgt_key1)
    /\ Truthy(st.src_key2) <=> Truthy(st.tgt_key2)

AcceptableRequest ==
    /\ PathExists(src_path) /\ PathExists(tgt_path)
    /\ ~WorkerBusy
    /\ ResolvePairs(mapping_state) # <<>>
    /\ OneOrTwoPerSide(mapping_state)

StartsWorkerWithKeys ==
    /\ Len(threads') = Len(threads) + 1
    /\ worker' = Len(threads')
    /\ threads'[worker'].src_keys = SourceKeys(mapping_state)
    /\ threads'[worker'].tgt_keys = TargetKeys(mapping_state)

\* C19: with valid paths, no run in flight, at least one pair and one or two
\* key columns per side, _run_compare starts a worker whose src_keys are the
\* source key columns and whose tgt_keys are the target key columns.
C19_AcceptsBothKeyShapes ==
    [][(AcceptableRequest /\ _run_compare) => StartsWorkerWithKeys]_vars

AliveThreads == {i \in 1..Len(threads) : IsAlive(threads[i])}

\* C20: at most one worker is alive at any time, and a Run Compare request
\* made while a worker is alive starts no thread, hands nothing to the main
\* loop for later, and leaves the result buffer and the running worker as
\* they are.
C20_AtMostOneWorker ==
    /\ [](Cardinality(AliveThreads) <= 1)
    /\ [][(AliveThreads # {} /\ _run_compare)
            => UNCHANGED <<threads, worker, result_frames, after_q, ui>>]_vars

\* a request was rejected as busy while the first worker was still running
C20_Witness ==
    /\ last_box = "A compare is already running."
    /\ Len(threads) = 1
    /\ AliveThreads = {1}
    /\ worker = 1

\* the worker of run i is past the call of compute_diff_pairs, which returned
Computed(i) ==
    /\ threads[i].pc \in {"store", "schedule", "finally", "exiting", "dead"}
    /\ threads[i].exc = <<>>

\* the callbacks waiting in the main loop that show the results of a run
PendingApply == {k \in 1..Len(after_q) : after_q[k].fn = "_apply_stats_and_tables"}

\* C21: the result buffer is empty or holds all five result sets of one run
\* whose computation has returned; a callback that shows results is scheduled
\* only for a run whose computation has returned; and once the latest run has
\* failed the buffer is empty.
C21_NoPartialResults ==
    /\ \/ result_frames = <<>>
       \/ /\ DOMAIN result_frames = FrameNames
          /\ \E i \in 1..Len(threads) :
                /\ Computed(i)
                /\ \A n \in FrameNames : result_frames[n] = i
    /\ \A k \in PendingApply : Computed(after_q[k].run)
    /\ (worker # 0 /\ threads[worker].exc # <<>>) => result_frames = <<>>

\* the second run has stored its results, the first one had failed
C21_Witness ==
    /\ Len(threads) = 2
    /\ threads[1].exc # <<>>
    /\ result_frames = ResultFrames(2)
    /\ PendingApply # {}

\* the files a worker has opened, read or failed on
FilesTouched(th) ==
    ({th.src_read, th.tgt_read} \ {""})
        \cup (IF th.exc # <<>> /\ th.exc.type = "RuntimeError" THEN {th.exc.path} ELSE {})

\* C22: a run in flight works on the configuration of its request: the files
\* its worker reads, or fails to read, are the source and target paths that
\* were set when _run_compare accepted the request, and its keys and pairs
\* are those of that request.
C22_RunKeepsRequestConfig ==
    \A i \in 1..Len(threads) :
        /\ FilesTouched(threads[i]) \subseteq {threads[i].req_src, threads[i].req_tgt}
        /\ threads[i].src_read \in {"", threads[i].req_src}
        /\ threads[i].tgt_read \in {"", threads[i].req_tgt}

\* C25: the statistics and the tables on display come from the same run: once
\* the statistics of a run are shown, no table shows the rows of another run
\* (a table not filled yet shows none).
C25_StatsAndTablesOfOneRun ==
    ui.stats # 0 => \A n \in FrameNames : ui.tables[n] \in {0, ui.stats}

\* _run_compare has just started the worker of run i
Accepted(i) == Len(threads) >= i /\ threads[i].pc = "read_src"

\* a callback of run i that shows its result or reports its error is waiting
OutcomeScheduled(i) ==
    \E k \in 1..Len(after_q) :
        /\ after_q[k].run = i
        /\ after_q[k].fn \in {"_apply_stats_and_tables", "showerror"}

\* the worker of run i has ended and the main loop has run all its callbacks
RunEnded(i) ==
    /\ Len(threads) >= i
    /\ ~IsAlive(threads[i])
    /\ \A k \in 1..Len(after_q) : after_q[k].run # i

SavedShape(st) ==
    /\ Truthy(st.src_key1) /\ Truthy(st.tgt_key1)
    /\ st.src_key2 # Some("") /\ st.tgt_key2 # Some("")
    /\ (st.src_key2 = Null) <=> (st.tgt_key2 = Null)
    /\ st.compare_pairs # Null
    /\ st.compare_pairs[1] # <<>>
    /\ \A k \in 1..Len(st.compare_pairs[1]) :
            st.compare_pairs[1][k][1] # "" /\ st.compare_pairs[1][k][2] # ""

\* the choices that _save refuses: key counts differ, or no complete row
Refused(c) == (c[2] # "") # (c[4] # "") \/ CompleteRows(c[5]) = <<>>

\* C28: the dialog changes the mapping only on a valid Save: a Save with
\* differing key counts or without a complete row, and a Cancel, leave the five
\* fields as they were; a Save that changes them leaves one or two keys on
\* each side, the second keys empty exactly when one key is used, and at
\* least one compare pair.
C28_DialogWritesOnValidSaveOnly ==
    [][/\ _open_mapping_dialog =>
            (UNCHANGED mapping_state \/ SavedShape(mapping_state'))
       /\ (PathExists(src_path) /\ PathExists(tgt_path)) =>
            \A c \in DialogChoices :
                (Refused(c) /\ _save(c[1], c[2], c[3], c[4], c[5]))
                => UNCHANGED mapping_state]_vars

\* a mapping with one key per side and one pair is in place, and a Save with
\* differing key counts has been refused
C28_Witness ==
    /\ SavedShape(mapping_state)
    /\ mapping_state.src_key2 = Null
    /\ last_box = "Source/Target keys must have the same number of columns (1 or 2)."

----------------------------------------------------------------------------
(* Claims about the config file, under SpecConfig *)

\* the config file is what _save_config writes for the mapping as it is now
SavedJustNow == config_file = Some(DumpConfig(mapping_state, src_path, tgt_path))

\* C27: saving the mapping and loading the saved file is a round trip: the
\* load succeeds and leaves the four keys and the compare pairs as they were.
C27_SaveLoadRoundTrip ==
    [][(SavedJustNow /\ _load_config_dialog)
            => (last_box' = "Loaded" /\ mapping_state' = mapping_state)]_vars

----------------------------------------------------------------------------
(* parse_qty_to_int on its own output, under SpecParse *)

\* C24: normalization is idempotent on its own output: when the call on a raw
\* cell returns n, the call on str(n) returns n.
C24_IdempotentOnOwnOutput ==
    (ppc = "done" /\ out.exc = "none")
        => parse_qty_to_int(IntToStr(out.val)) = Ok(out.val)

\* a cell written otherwise than str(n) has given a negative n
C24_Witness ==
    /\ ppc = "done" /\ out.exc = "none"
    /\ out.val < 0
    /\ raw # IntToStr(out.val)

----------------------------------------------------------------------------
(* The availability sets of compute_diff_pairs, under SpecGui *)

RecordsOf(frame) == {frame[d] : d \in 1..Len(frame)}

\* key and first compare pair of a row, as the availability sets show them
FirstPairRecord(r) == [key |-> r.key, val0_src |-> r.src[1], val0_tgt |-> r.tgt[1]]

AvailabilitySets == RecordsOf(res.src_in_tgt_out) \cup RecordsOf(res.tgt_in_src_out)

\* C26: the two availability sets have no record in common, every record of
\* either is a 'modified' record of the mismatches, so that hnau_in_vs_out +
\* vs_in_hnau_out <= modified, and no 'same' record is in either set.
C26_AvailabilityWithinModified ==
    gpc = "done" =>
        /\ RecordsOf(res.src_in_tgt_out) \cap RecordsOf(res.tgt_in_src_out) = {}
        /\ AvailabilitySets \subseteq {FirstPairRecord(r) : r \in RecordsOf(res.diff_df)}
        /\ res.stats.hnau_in_vs_out = Len(res.src_in_tgt_out)
        /\ res.stats.vs_in_hnau_out = Len(res.tgt_in_src_out)
        /\ res.stats.hnau_in_vs_out + res.stats.vs_in_hnau_out <= res.stats.modified
        /\ \A n \in 1..Len(merged) :
                SameMask(merged[n]) => FirstPairRecord(merged[n]) \notin AvailabilitySets

\* both availability sets have a record, next to a record that is 'same'
C26_Witness ==
    /\ gpc = "done"
    /\ res.src_in_tgt_out # <<>>
    /\ res.tgt_in_src_out # <<>>
    /\ res.stats.same > 0

----------------------------------------------------------------------------
(* Claims about fetch_all_orders, under SpecFetch *)

\* C29: when the page size equals the batch size and every request succeeds,
\* the list fetch_all_orders returns holds no order twice and has as many
\* entries as the server holds orders.
C29_EveryOrderExactlyOnce ==
    (fpc = "done" /\ limit = batch_size) =>
        /\ Len(all_orders) = server_count
        /\ \A i, j \in 1..Len(all_orders) : all_orders[i] = all_orders[j] => i = j

----------------------------------------------------------------------------
(* Claims about the stock-status pass, under SpecStock *)

\* the worksheet rows the loop has gone through, the one it stopped at included
Visited == {k \in 1..Len(ws) : k < ws_row - 1 \/ (kpc = "TypeError" /\ k = ws_row - 1)}

\* C30: the pass raises no error, and every row it has gone through carries
\* its StockStatus ('Missing data' when a quantity is empty, else the status
\* given by qty <= 0 on each side) and a Validation value.
C30_EveryRowHandled ==
    /\ kpc # "TypeError"
    /\ \A k \in Visited :
          LET wh == ws[k].quantity_warehouse
              ec == ws[k].quantity_ecommerce
          IN  /\ ws[k].Validation # Null
              /\ ws[k].StockStatus =
                    Some(IF wh = Null \/ ec = Null THEN "Missing data"
                         ELSE IF wh[1] <= 0
                              THEN (IF ec[1] <= 0 THEN "Out of stock in both warehouse and ecommerce"
                                    ELSE "Stock available in ecommerce only")
                              ELSE (IF ec[1] <= 0 THEN "Stock available in warehouse only"
                                    ELSE "Stock available in both warehouse and ecommerce"))

====
